---------------------------- MODULE Spec2Model ----------------------------
(***************************************************************************)
(* Verification model of the U++ example programs of the repository.      *)
(*                                                                         *)
(* Every example is an independent program; each gets its own group of    *)
(* variables, its own initial predicate, its own actions and its own      *)
(* specification.  Calls into the U++ framework (Core, CtrlCore, CtrlLib) *)
(* are modelled by what the framework does at that call.                   *)
(*                                                                         *)
(*   SpecSum     parallel sum            (MyTreeCtrlExample.cpp:48-94)     *)
(*   SpecScan    MyColorValueConvert     (unnamed/part_000)                *)
(*   SpecSerial  serialization           (unnamed/part_002)                *)
(*   SpecGui     the GUI examples: dialog template, ColorButton, MenuBar,  *)
(*               ArrayCtrl; one behaviour runs one of them                 *)
(***************************************************************************)
EXTENDS Integers, Sequences, FiniteSets, TLC

VARIABLES
    \* ---- parallel sum (CONSOLE_APP_MAIN of MyTreeCtrlExample.cpp) ----
    pcMain,       \* position of the main thread
    numbers,      \* Vector<int> numbers
    totalSum,     \* Atomic totalSum
    ranges,       \* the subranges CoPartition handed to the lambda
    jobPc,        \* per subrange: "ready" | "run" | "done"
    jobIdx,       \* per subrange: position of the range-for loop
    localSum,     \* per subrange: long localSum
    loggedTotal,  \* the value LOG("Total sum: " << totalSum) read
    expectedSum,  \* long expectedSum
    stringItems,  \* Vector<String> stringItems
    sRanges,      \* the subranges the second CoPartition handed to its lambda
    sJobPc,       \* per subrange of stringItems: "run" | "done"
    sJobIdx,      \* per subrange of stringItems: position of the range-for loop
    sText,        \* per subrange of stringItems: String s
    conLog,       \* the lines LOG has written, in order
    \* ---- MyColorValueConvert (unnamed/part_000) ----
    pcScan,       \* "input" | "scanned"
    scanIn,       \* the Value handed to Scan
    scanOut,      \* the Value Scan returned
    \* ---- serialization (CONSOLE_APP_MAIN of unnamed/part_002) ----
    pcSer,              \* position of the main routine
    originalObject,     \* MySerializableObject originalObject
    serializedData,     \* String serializedData: a sequence of bytes
    deserializedObject, \* MySerializableObject deserializedObject
    \* ---- dialog template (MyDialogTemplateExample.cpp) ----
    dlgPc,         \* "off" | "new" | "constructed" | "running" | "prompt" | "ended"
    nameEdit,      \* the content of EditString nameEdit
    checkOption,   \* the state of Option checkOption
    okAction,      \* okButton's WhenAction: "unassigned" | "handler"
    cancelAction,  \* cancelButton's WhenAction: "unassigned"
    buttonRole,    \* the dialog role of each button (Ok(), Cancel())
    runResult,     \* what Run returned: "none" until it returns
    dlgPrompts,    \* the texts PromptOK has shown, in order
    okHandled,     \* how often the OK handler has run to its end
    cancelPushed,  \* how often cancelButton was pushed
    \* ---- ColorButton (MyColorButtonExample.cpp) ----
    cbPc,                \* "off" | "new" | "constructed" | "running" | "ended"
    colorBtn,            \* the color ColorButton colorBtn holds
    cbWhenAction,        \* colorBtn.WhenAction: "unassigned" | "ColorChanged"
    selectedColorLabel,  \* the text of Label selectedColorLabel
    cbLog,               \* the lines LOG has written, in order
    cbPicked,            \* the colors the user has picked, in order
    \* ---- MenuBar (MyMenuBarExample.cpp) ----
    mbPc,          \* "off" | "new" | "ctor_menu" | "ctor_label" | "constructed"
                   \*   | "running" | "prompt" | "ended"
    mbMenuSet,     \* menu.Set(...) was called and the menu is a frame
    mbChildren,    \* the child widgets of the window
    mbLabelAlive,  \* the Label object of the constructor exists
    mbOpen,        \* the window is open
    mbShown,       \* the texts PromptOK has shown, in order
    mbLast,        \* the menu item chosen last, "none" before the first
    \* ---- ArrayCtrl (unnamed/part_001) ----
    acPc,          \* the next statement of the constructor, then "running"
    acColumns,     \* the columns of dataList: header text and Id
    acRows,        \* the rows of dataList
    lastRowIndex,  \* int lastRowIndex
    acSelected,    \* the rows the user has selected (MultiSelect)
    \* ---- TreeCtrl (MyTreeCtrlExample.cpp, first part) ----
    trPc,          \* the next statement of the constructor, then "running"
    trItems,       \* the items of tree; the item with id i is trItems[i + 1]
    rootNodeId,    \* int rootNodeId
    childNode2Id,  \* int childNode2Id
    \* ---- ButtonApp (UppApplicationSessionGuide.md, "Simple GUI Button") ----
    baPc,          \* "off" | "new" | "constructed" | "running" | "ended"
    count,         \* int count
    info,          \* the text of Label info
    baWhenAction,  \* clickMe's WhenAction: "unassigned" | "handler"
    baClicks,      \* how often the user has clicked clickMe
    \* ---- layout-file lookup (UppApplicationSessionGuide.md) ----
    layPc,         \* "off" | "input" | "looked_up"
    layIncludes,   \* the include paths the .upp file declares
    layFile,       \* where the .lay file is stored, from the package directory
    layPath,       \* the path of #define LAYOUTFILE <path>
    laySearched,   \* the files the build system has searched for
    layFound,      \* the build system has found the layout
    \* ---- MyColorValue::ToString, MyColorValueConvert::Format and Filter ----
    pcFmt,         \* "off" | "input" | "tostring" | "formatted" | "filtered"
                   \*   | "scanned" | "crashed"
    fmtIn,         \* the Value handed to Format and Filter
    toStr,         \* what MyColorValue::ToString returned
    fmtOut,        \* the Value Format returned
    filterOut,     \* the Value Filter returned
    fmtScan,       \* what Scan returned for the Value Format returned
    \* ---- display/convert test window (unnamed/part_000, lines 64-157) ----
    dtPc,          \* "off" | "new" | "constructed" | "running" | "handled"
                   \*   | "ended"
    myCtrlData,    \* myCtrl.data, the MyColorValue myCtrl paints
    editField,     \* the text of editField
    resultLabel,   \* the text of resultLabel
    convertAction, \* convertButton's WhenAction: "unassigned" | "handler"
    dtDataAtClick  \* myCtrl.data when the last click's handler was entered

\* The second CoPartition call and its lambdas.
strVars == <<stringItems, sRanges, sJobPc, sJobIdx, sText>>

sumVars == <<pcMain, numbers, totalSum, ranges, jobPc, jobIdx, localSum,
             loggedTotal, expectedSum, strVars, conLog>>

scanVars == <<pcScan, scanIn, scanOut>>

serVars == <<pcSer, originalObject, serializedData, deserializedObject>>

dlgVars == <<dlgPc, nameEdit, checkOption, okAction, cancelAction,
             buttonRole, runResult, dlgPrompts, okHandled, cancelPushed>>

cbVars == <<cbPc, colorBtn, cbWhenAction, selectedColorLabel, cbLog,
            cbPicked>>

mbVars == <<mbPc, mbMenuSet, mbChildren, mbLabelAlive, mbOpen, mbShown,
            mbLast>>

acVars == <<acPc, acColumns, acRows, lastRowIndex, acSelected>>

trVars == <<trPc, trItems, rootNodeId, childNode2Id>>

baVars == <<baPc, count, info, baWhenAction, baClicks>>

layVars == <<layPc, layIncludes, layFile, layPath, laySearched, layFound>>

fmtVars == <<pcFmt, fmtIn, toStr, fmtOut, filterOut, fmtScan>>

dtVars == <<dtPc, myCtrlData, editField, resultLabel, convertAction,
            dtDataAtClick>>

vars == <<sumVars, scanVars, serVars, dlgVars, cbVars, mbVars, acVars,
          trVars, baVars, layVars, fmtVars, dtVars>>

\* What the actions of one example leave alone: the other examples.
guiVars == <<dlgVars, cbVars, mbVars, acVars, trVars, baVars, dtVars>>
notSum == <<scanVars, serVars, guiVars, layVars,
           fmtVars>>
notScan == <<sumVars, serVars, guiVars, layVars,
           fmtVars>>
notSer == <<sumVars, scanVars, guiVars, layVars,
           fmtVars>>
notLay == <<sumVars, scanVars, serVars, guiVars,
           fmtVars>>
notFmt == <<sumVars, scanVars, serVars, guiVars, layVars>>
notDlg == <<sumVars, scanVars, serVars, cbVars, mbVars, acVars,
           trVars, baVars, layVars,
           fmtVars, dtVars>>
notCb == <<sumVars, scanVars, serVars, dlgVars, mbVars, acVars,
           trVars, baVars, layVars,
           fmtVars, dtVars>>
notMb == <<sumVars, scanVars, serVars, dlgVars, cbVars, acVars,
           trVars, baVars, layVars,
           fmtVars, dtVars>>
notAc == <<sumVars, scanVars, serVars, dlgVars, cbVars, mbVars,
           trVars, baVars, layVars,
           fmtVars, dtVars>>
notTr == <<sumVars, scanVars, serVars, dlgVars, cbVars, mbVars,
           acVars, baVars, layVars,
           fmtVars, dtVars>>
notBa == <<sumVars, scanVars, serVars, dlgVars, cbVars, mbVars,
           acVars, trVars, layVars,
           fmtVars, dtVars>>
notDt == <<sumVars, scanVars, serVars, dlgVars, cbVars, mbVars,
           acVars, trVars, baVars, layVars, fmtVars>>

(***************************************************************************)
(* Bounds of the model.                                                    *)
(***************************************************************************)
\* The example fills numbers with 1..100; the model fills it with
\* 1..NumCount.
NumCount == 4
\* Longest string handed to Scan.
MaxLen == 6
\* Hex digits of a color literal: "#RRGGBB" has 6, the model's "#hh" has
\* HexLen.
HexLen == 2
\* Longest name of a MySerializableObject other than "TestObject".
MaxNameLen == 2
\* The example's stringItems has eight items; the model keeps the first
\* StrCount of them.
StrCount == 4
\* Longest name of a MyColorValue handed to Format.
MaxFormatNameLen == 2
\* How often the user pushes one button of a window.
MaxClicks == 2
\* How often the user clicks clickMe of ButtonApp.
MaxButtonClicks == 12

(***************************************************************************)
(* Helpers.                                                                *)
(***************************************************************************)
RECURSIVE SumSeq(_)
SumSeq(s) == IF s = <<>> THEN 0 ELSE s[1] + SumSeq(Tail(s))

(***************************************************************************)
(*                        PARALLEL SUM EXAMPLE                             *)
(***************************************************************************)

\* for(int i = 1; i <= 100; ++i) numbers.Add(i);
FillNumbers == [i \in 1..NumCount |-> i]

\* The contiguous subranges a set of cut positions produces: a cut at c
\* ends one subrange at index c and starts the next at c + 1.  CoPartition
\* walks the range from begin to end in chunks; which chunk size it picks
\* depends on the element count and the number of cores, so every set of
\* cuts is allowed (no cut: the lambda gets the whole range).
RECURSIVE SubRangesFrom(_, _, _)
SubRangesFrom(lo, cuts, n) ==
    IF lo > n THEN <<>>
    ELSE LET later == {c \in cuts : c >= lo}
             hi    == IF later = {} THEN n
                      ELSE CHOOSE c \in later : \A d \in later : c <= d
         IN  <<[lo |-> lo, hi |-> hi]>> \o SubRangesFrom(hi + 1, cuts, n)

SubRanges(cuts, n) == SubRangesFrom(1, cuts, n)

\* totalSum = localSum: an assignment where the code has +=.
AtomicStore(total, v) == v

\* totalSum += localSum on an Atomic: one indivisible read-modify-write.
AtomicAdd(total, v) == total + v

\* The items of stringItems, in the order of the initializer list.
AllStringItems ==
    <<"alpha", "beta", "gamma", "delta", "epsilon", "zeta", "eta", "theta">>

\* if(!s.IsEmpty()) s << ", "; s << item;   without the separator
AppendItemNoSeparator(s, item) == s \o item

\* if(!s.IsEmpty()) s << ", "; s << item;
AppendItem(s, item) == IF s # "" THEN s \o ", " \o item ELSE item

\* "Processing subrange: [ " << s << " ]"
SubrangeLine(s) == "Processing subrange: [ " \o s \o " ]"

\* A CoWork that does not wait for its jobs.
CoWorkNoWait(pcs) == TRUE

\* A CoWork whose jobs are never seen as finished.
CoWorkNeverFinished(pcs) == FALSE

\* CoWork::Finish, which the end of CoPartition runs: it returns when every
\* scheduled job has returned.
CoWorkFinished(pcs) == \A j \in DOMAIN pcs : pcs[j] = "done"

InitSum ==
    /\ pcMain = "start"
    /\ numbers = FillNumbers
    /\ totalSum = 0
    /\ ranges = <<>>
    /\ jobPc = <<>>
    /\ jobIdx = <<>>
    /\ localSum = <<>>
    /\ loggedTotal = -1
    /\ expectedSum = 0
    /\ stringItems = <<>>
    /\ sRanges = <<>>
    /\ sJobPc = <<>>
    /\ sJobIdx = <<>>
    /\ sText = <<>>
    /\ conLog = <<>>

\* The variables of the parallel sum while another example runs.
IdleSum ==
    /\ pcMain = "off"
    /\ numbers = <<>>
    /\ totalSum = 0
    /\ ranges = <<>>
    /\ jobPc = <<>>
    /\ jobIdx = <<>>
    /\ localSum = <<>>
    /\ loggedTotal = -1
    /\ expectedSum = 0
    /\ stringItems = <<>>
    /\ sRanges = <<>>
    /\ sJobPc = <<>>
    /\ sJobIdx = <<>>
    /\ sText = <<>>
    /\ conLog = <<>>

\* LOG("Calculating sum of numbers from 1 to 100 in parallel...");
\* CoPartition(numbers, lambda): one job per subrange is scheduled.
CoPartitionNumbers ==
    /\ pcMain = "start"
    /\ \E cuts \in SUBSET (1..(Len(numbers) - 1)) :
          LET rs == SubRanges(cuts, Len(numbers)) IN
          /\ ranges' = rs
          /\ jobPc' = [j \in DOMAIN rs |-> "run"]
          /\ jobIdx' = [j \in DOMAIN rs |-> rs[j].lo]
          /\ localSum' = [j \in DOMAIN rs |-> 0]
    /\ conLog' = Append(conLog,
                   "Calculating sum of numbers from 1 to 100 in parallel...")
    /\ pcMain' = "copartition"
    /\ UNCHANGED <<numbers, totalSum, loggedTotal, expectedSum, strVars>>
    /\ UNCHANGED notSum

\* for(int x : subrange) localSum += x;   (one iteration)
WorkerIter(j) ==
    /\ jobPc[j] = "run"
    /\ jobIdx[j] <= ranges[j].hi
    /\ localSum' = [localSum EXCEPT ![j] = @ + numbers[jobIdx[j]]]
    /\ jobIdx' = [jobIdx EXCEPT ![j] = @ + 1]
    /\ UNCHANGED <<pcMain, numbers, totalSum, ranges, jobPc, loggedTotal,
                   expectedSum, strVars, conLog>>
    /\ UNCHANGED notSum

\* totalSum += localSum;   and the lambda returns
WorkerAdd(j) ==
    /\ jobPc[j] = "run"
    /\ jobIdx[j] > ranges[j].hi
    /\ totalSum' = AtomicAdd(totalSum, localSum[j])
    /\ jobPc' = [jobPc EXCEPT ![j] = "done"]
    /\ UNCHANGED <<pcMain, numbers, ranges, jobIdx, localSum, loggedTotal,
                   expectedSum, strVars, conLog>>
    /\ UNCHANGED notSum

\* CoPartition returns: its CoWork waits for every scheduled job.
CoPartitionReturn ==
    /\ pcMain = "copartition"
    /\ CoWorkFinished(jobPc)
    /\ pcMain' = "summed"
    /\ UNCHANGED <<numbers, totalSum, ranges, jobPc, jobIdx, localSum,
                   loggedTotal, expectedSum, strVars, conLog>>
    /\ UNCHANGED notSum

\* LOG("Parallel sum calculation complete."); LOG("Total sum: " << totalSum);
LogTotal ==
    /\ pcMain = "summed"
    /\ loggedTotal' = totalSum
    /\ conLog' = conLog \o <<"Parallel sum calculation complete.",
                             "Total sum: " \o ToString(totalSum)>>
    /\ pcMain' = "logged"
    /\ UNCHANGED <<numbers, totalSum, ranges, jobPc, jobIdx, localSum,
                   expectedSum, strVars>>
    /\ UNCHANGED notSum

\* for(int i = 1; i <= 100; ++i) expectedSum += i;
\* LOG("Expected sum (calculated sequentially): " << expectedSum);
ComputeExpected ==
    /\ pcMain = "logged"
    /\ expectedSum' = SumSeq([i \in 1..NumCount |-> i])
    /\ conLog' = Append(conLog, "Expected sum (calculated sequentially): "
                                    \o ToString(expectedSum'))
    /\ pcMain' = "expected"
    /\ UNCHANGED <<numbers, totalSum, ranges, jobPc, jobIdx, localSum,
                   loggedTotal, strVars>>
    /\ UNCHANGED notSum

\* ASSERT(totalSum == expectedSum);
AssertTotal ==
    /\ pcMain = "expected"
    /\ pcMain' = IF totalSum = expectedSum THEN "asserted" ELSE "assert_failed"
    /\ UNCHANGED <<numbers, totalSum, ranges, jobPc, jobIdx, localSum,
                   loggedTotal, expectedSum, strVars, conLog>>
    /\ UNCHANGED notSum

\* LOG("\nIllustrating CoPartition by logging elements in subranges:");
\* Vector<String> stringItems = {...}; CoPartition(stringItems, lambda)
CoPartitionStrings ==
    /\ pcMain = "asserted"
    /\ stringItems' = SubSeq(AllStringItems, 1, StrCount)
    /\ \E cuts \in SUBSET (1..(StrCount - 1)) :
          LET rs == SubRanges(cuts, StrCount) IN
          /\ sRanges' = rs
          /\ sJobPc' = [j \in DOMAIN rs |-> "run"]
          /\ sJobIdx' = [j \in DOMAIN rs |-> rs[j].lo]
          /\ sText' = [j \in DOMAIN rs |-> ""]
    /\ conLog' = Append(conLog,
              "\nIllustrating CoPartition by logging elements in subranges:")
    /\ pcMain' = "copartition2"
    /\ UNCHANGED <<numbers, totalSum, ranges, jobPc, jobIdx, localSum,
                   loggedTotal, expectedSum>>
    /\ UNCHANGED notSum

\* for(const String& item : subrange) { if(!s.IsEmpty()) s << ", "; s << item; }
\* (one iteration)
StringWorkerIter(j) ==
    /\ sJobPc[j] = "run"
    /\ sJobIdx[j] <= sRanges[j].hi
    /\ sText' = [sText EXCEPT ![j] = AppendItem(@, stringItems[sJobIdx[j]])]
    /\ sJobIdx' = [sJobIdx EXCEPT ![j] = @ + 1]
    /\ UNCHANGED <<pcMain, numbers, totalSum, ranges, jobPc, jobIdx, localSum,
                   loggedTotal, expectedSum, stringItems, sRanges, sJobPc,
                   conLog>>
    /\ UNCHANGED notSum

\* LOG("Processing subrange: [ " << s << " ]");   and the lambda returns.
\* LOG writes its line under the lock of the log, so lines do not mix.
StringWorkerLog(j) ==
    /\ sJobPc[j] = "run"
    /\ sJobIdx[j] > sRanges[j].hi
    /\ conLog' = Append(conLog, SubrangeLine(sText[j]))
    /\ sJobPc' = [sJobPc EXCEPT ![j] = "done"]
    /\ UNCHANGED <<pcMain, numbers, totalSum, ranges, jobPc, jobIdx, localSum,
                   loggedTotal, expectedSum, stringItems, sRanges, sJobIdx,
                   sText>>
    /\ UNCHANGED notSum

\* The second CoPartition returns and CONSOLE_APP_MAIN ends.
CoPartitionStringsReturn ==
    /\ pcMain = "copartition2"
    /\ CoWorkFinished(sJobPc)
    /\ pcMain' = "end"
    /\ UNCHANGED <<numbers, totalSum, ranges, jobPc, jobIdx, localSum,
                   loggedTotal, expectedSum, strVars, conLog>>
    /\ UNCHANGED notSum

NextSum ==
    \/ CoPartitionNumbers
    \/ \E j \in DOMAIN jobPc : WorkerIter(j)
    \/ \E j \in DOMAIN jobPc : WorkerAdd(j)
    \/ CoPartitionReturn
    \/ LogTotal
    \/ ComputeExpected
    \/ AssertTotal
    \/ CoPartitionStrings
    \/ \E j \in DOMAIN sJobPc : StringWorkerIter(j)
    \/ \E j \in DOMAIN sJobPc : StringWorkerLog(j)
    \/ CoPartitionStringsReturn

(***************************************************************************)
(*                 MyColorValueConvert  (unnamed/part_000)                 *)
(*                                                                         *)
(* A String is a sequence of one-character strings; positions are 0-based *)
(* as in the code and -1 means "not found".                                *)
(***************************************************************************)

\* The characters of the model: a letter (which is also a hex digit), a
\* decimal digit, the blank, the two brackets and the hash sign.
Alphabet == {"a", "0", " ", "(", ")", "#"}

HexDigits == {"0", "a"}

\* Every String of at most n characters.
StringsUpTo(n) == UNION {[1..k -> Alphabet] : k \in 0..n}

\* Color: its RGB value, or NullColor for the default-constructed Color.
NullColor == -1

\* Black(), the color of a default-constructed MyColorValue.
Black == 0

\* struct MyColorValue { Color colorVal; String name; }
MyColorValue(c, n) == [colorVal |-> c, name |-> n]

\* Value: every Value of the model is a record of the same shape; type
\* tells which field is the payload.
StringValue(s) == [type |-> "String", text |-> s, num |-> 0,
                   colorVal |-> NullColor, name |-> <<>>]

IntValue(n) == [type |-> "int", text |-> <<>>, num |-> n,
                colorVal |-> NullColor, name |-> <<>>]

\* Value(): the Null value
NullValue == [type |-> "void", text |-> <<>>, num |-> 0,
              colorVal |-> NullColor, name |-> <<>>]

\* ErrorValue()
ErrorValue == [type |-> "Error", text |-> <<>>, num |-> 0,
               colorVal |-> NullColor, name |-> <<>>]

\* RawToValue(const MyColorValue&)
RawToValue(mcv) == [type |-> "MyColorValue", text |-> <<>>, num |-> 0,
                    colorVal |-> mcv.colorVal, name |-> mcv.name]

\* q.IsString()
IsString(q) == q.type = "String"

\* q.Is<MyColorValue>()
IsMyColorValue(q) == q.type = "MyColorValue"

\* q.IsError()
IsError(q) == q.type = "Error"

\* String::Find(int chr): the position of the first chr, -1 when none.
RECURSIVE FindFrom(_, _, _)
FindFrom(s, ch, i) ==
    IF i > Len(s) THEN -1
    ELSE IF s[i] = ch THEN i - 1
    ELSE FindFrom(s, ch, i + 1)

Find(s, ch) == FindFrom(s, ch, 1)

\* String::Left(int count)
Left(s, n) == SubSeq(s, 1, n)

\* String::Mid(int pos, int length)
Mid(s, pos, length) == SubSeq(s, pos + 1, pos + length)

\* TrimLeft / TrimRight / TrimBoth: whitespace removed at the ends.
RECURSIVE TrimLeft(_)
TrimLeft(s) ==
    IF s # <<>> /\ s[1] = " " THEN TrimLeft(Tail(s)) ELSE s

RECURSIVE TrimRight(_)
TrimRight(s) ==
    IF s # <<>> /\ s[Len(s)] = " " THEN TrimRight(SubSeq(s, 1, Len(s) - 1))
    ELSE s

TrimBoth(s) == TrimLeft(TrimRight(s))

\* The value of a hex digit.
HexDigitValue(ch) == IF ch = "a" THEN 10 ELSE 0

\* The value of a string of hex digits, most significant digit first.
RECURSIVE HexValue(_)
HexValue(s) ==
    IF s = <<>> THEN 0
    ELSE 16 * HexValue(SubSeq(s, 1, Len(s) - 1)) + HexDigitValue(s[Len(s)])

\* The color names Color::Scan knows; the model has one, spelled "a".
NamedColors == {<<"a">>}

\* The color of a color name.
NamedColorValue(s) == 16 * 16 * 16 * 16

\* Color::Scan(text): "Color::Scan can parse "#RRGGBB" and color names".
\* ok tells whether text was parsed, color is the color then.
ColorScan(text) ==
    IF /\ Len(text) = 1 + HexLen
       /\ text[1] = "#"
       /\ \A i \in 2..Len(text) : text[i] \in HexDigits
    THEN [ok |-> TRUE, color |-> HexValue(Tail(text))]
    ELSE IF text \in NamedColors
    THEN [ok |-> TRUE, color |-> NamedColorValue(text)]
    ELSE [ok |-> FALSE, color |-> NullColor]

\* Scan without the test of what Color::Scan returned.
ScanUnchecked(q) ==
    IF IsString(q)
    THEN LET s        == q.text
             obracket == Find(s, "(")
             cbracket == Find(s, ")")
         IN  IF obracket # -1 /\ cbracket # -1 /\ cbracket > obracket + 1
             THEN LET namePart  == TrimBoth(Left(s, obracket))
                      colorPart == TrimBoth(Mid(s, obracket + 1,
                                                cbracket - obracket - 1))
                      c         == ColorScan(colorPart)
                  IN  RawToValue(MyColorValue(c.color, namePart))
             ELSE ErrorValue
    ELSE ErrorValue

\* Scan that keeps the blanks around the name.
ScanUntrimmedName(q) ==
    IF IsString(q)
    THEN LET s        == q.text
             obracket == Find(s, "(")
             cbracket == Find(s, ")")
         IN  IF obracket # -1 /\ cbracket # -1 /\ cbracket > obracket + 1
             THEN LET namePart  == Left(s, obracket)
                      colorPart == TrimBoth(Mid(s, obracket + 1,
                                                cbracket - obracket - 1))
                      c         == ColorScan(colorPart)
                  IN  IF c.ok
                      THEN RawToValue(MyColorValue(c.color, namePart))
                      ELSE ErrorValue
             ELSE ErrorValue
    ELSE ErrorValue

\* The position of the last chr, -1 when none.
RECURSIVE ReverseFindFrom(_, _, _)
ReverseFindFrom(s, ch, i) ==
    IF i < 1 THEN -1
    ELSE IF s[i] = ch THEN i - 1
    ELSE ReverseFindFrom(s, ch, i - 1)

\* Scan that takes the last ')' where the code takes the first.
ScanToLastBracket(q) ==
    IF IsString(q)
    THEN LET s        == q.text
             obracket == Find(s, "(")
             cbracket == ReverseFindFrom(s, ")", Len(s))
         IN  IF obracket # -1 /\ cbracket # -1 /\ cbracket > obracket + 1
             THEN LET namePart  == TrimBoth(Left(s, obracket))
                      colorPart == TrimBoth(Mid(s, obracket + 1,
                                                cbracket - obracket - 1))
                      c         == ColorScan(colorPart)
                  IN  IF c.ok
                      THEN RawToValue(MyColorValue(c.color, namePart))
                      ELSE ErrorValue
             ELSE ErrorValue
    ELSE ErrorValue

\* MyColorValueConvert::Scan
Scan(q) ==
    IF IsString(q)
    THEN LET s        == q.text
             obracket == Find(s, "(")
             cbracket == Find(s, ")")
         IN  IF obracket # -1 /\ cbracket # -1 /\ cbracket > obracket + 1
             THEN LET namePart  == TrimBoth(Left(s, obracket))
                      colorPart == TrimBoth(Mid(s, obracket + 1,
                                                cbracket - obracket - 1))
                      c         == ColorScan(colorPart)
                  IN  IF c.ok
                      THEN RawToValue(MyColorValue(c.color, namePart))
                      ELSE ErrorValue
             ELSE ErrorValue
    ELSE ErrorValue

\* The Values handed to Scan: every short String and Values of other types.
ScanInputs ==
    {StringValue(s) : s \in StringsUpTo(MaxLen)}
        \cup {NullValue, IntValue(0), IntValue(7),
              RawToValue(MyColorValue(Black, <<"a">>))}

InitScan ==
    /\ pcScan = "input"
    /\ scanIn \in ScanInputs
    /\ scanOut = NullValue

\* The variables of the converter while another example runs.
IdleScan ==
    /\ pcScan = "off"
    /\ scanIn = NullValue
    /\ scanOut = NullValue

\* Value v = Single<MyColorValueConvert>().Scan(q);
DoScan ==
    /\ pcScan = "input"
    /\ scanOut' = Scan(scanIn)
    /\ pcScan' = "scanned"
    /\ UNCHANGED scanIn
    /\ UNCHANGED notScan

NextScan ==
    \/ DoScan

(***************************************************************************)
(*   MyColorValue::ToString, MyColorValueConvert::Format and Filter        *)
(*                        (unnamed/part_000)                               *)
(*                                                                         *)
(* Both ToString and Format build their text with                          *)
(*     Sprintf("%s (%s)", name, colorVal.ToString())                       *)
(* Sprintf is the printf-style function of Core, String Sprintf(const char *)
(* *fmt, ...): its arguments go through the C variable argument list and   *)
(* "%s" reads a const char *.  The call hands it two String objects, which *)
(* is undefined: a build that accepts it passes the bytes of the String    *)
(* where a pointer is read.  The outcomes of the model: the text the       *)
(* format describes, some other text, or a crash.  (Format(...) of Core is *)
(* the type-safe function that takes Strings.)                             *)
(***************************************************************************)

Digits == <<"0", "1", "2", "3", "4", "5", "6", "7", "8", "9">>

\* The decimal digits of n >= 0: "%d".
RECURSIVE DecText(_)
DecText(n) ==
    IF n < 10 THEN <<Digits[n + 1]>>
    ELSE DecText(n \div 10) \o <<Digits[(n % 10) + 1]>>

\* Color::ToString: "Color(r, g, b)", "Color(Null)" for the Null color.
ColorText(c) ==
    IF c = NullColor
    THEN <<"C", "o", "l", "o", "r", "(", "N", "u", "l", "l", ")">>
    ELSE <<"C", "o", "l", "o", "r", "(">>
             \o DecText((c \div 65536) % 256) \o <<",", " ">>
             \o DecText((c \div 256) % 256) \o <<",", " ">>
             \o DecText(c % 256) \o <<")">>

\* The text the format "%s (%s)" describes.
SprintfText(name, colorText) == name \o <<" ", "(">> \o colorText \o <<")">>

\* A text that is not the one the format describes.
OtherText == <<"?">>

\* Sprintf("%s (%s)", name, colorVal.ToString()) with its String arguments.
SprintfOutcomes(name, colorText) ==
    {[crashed |-> FALSE, text |-> SprintfText(name, colorText)],
     [crashed |-> FALSE, text |-> OtherText],
     [crashed |-> TRUE, text |-> <<>>]}

\* MyColorValue::ToString
ToStringOutcomes(mcv) == SprintfOutcomes(mcv.name, ColorText(mcv.colorVal))

\* MyColorValueConvert::Format
FormatOutcomes(q) ==
    IF IsMyColorValue(q)
    THEN {[crashed |-> o.crashed, value |-> StringValue(o.text)] :
             o \in SprintfOutcomes(q.name, ColorText(q.colorVal))}
    ELSE {[crashed |-> FALSE, value |-> q]}

\* MyColorValueConvert::Filter
Filter(q) == q

\* The colors of the model's MyColorValues.
FormatColors == {Black, 10, 16 * 16 * 16 * 16 * 255, NullColor}

\* The Values handed to Format: MyColorValues with every short name, and
\* Values of other types.
FormatInputs ==
    {RawToValue(MyColorValue(c, n)) :
        c \in FormatColors, n \in StringsUpTo(MaxFormatNameLen)}
        \cup {NullValue, IntValue(7), ErrorValue, StringValue(<<"a">>),
              StringValue(<<"a", " ", "(", "#", "0", "a", ")">>)}

InitFmt ==
    /\ pcFmt = "input"
    /\ fmtIn \in FormatInputs
    /\ toStr = <<>>
    /\ fmtOut = NullValue
    /\ filterOut = NullValue
    /\ fmtScan = NullValue

\* The variables of Format while another example runs.
IdleFmt ==
    /\ pcFmt = "off"
    /\ fmtIn = NullValue
    /\ toStr = <<>>
    /\ fmtOut = NullValue
    /\ filterOut = NullValue
    /\ fmtScan = NullValue

\* String s = q.Get<MyColorValue>().ToString();   when q holds a MyColorValue
DoToString ==
    /\ pcFmt = "input"
    /\ IF IsMyColorValue(fmtIn)
       THEN \E o \in ToStringOutcomes(MyColorValue(fmtIn.colorVal,
                                                   fmtIn.name)) :
               /\ toStr' = o.text
               /\ pcFmt' = IF o.crashed THEN "crashed" ELSE "tostring"
       ELSE /\ toStr' = toStr
            /\ pcFmt' = "tostring"
    /\ UNCHANGED <<fmtIn, fmtOut, filterOut, fmtScan>>
    /\ UNCHANGED notFmt

\* Value f = Single<MyColorValueConvert>().Format(q);
DoFormat ==
    /\ pcFmt = "tostring"
    /\ \E o \in FormatOutcomes(fmtIn) :
          /\ fmtOut' = o.value
          /\ pcFmt' = IF o.crashed THEN "crashed" ELSE "formatted"
    /\ UNCHANGED <<fmtIn, toStr, filterOut, fmtScan>>
    /\ UNCHANGED notFmt

\* Value g = Single<MyColorValueConvert>().Filter(q);
DoFilter ==
    /\ pcFmt = "formatted"
    /\ filterOut' = Filter(fmtIn)
    /\ pcFmt' = "filtered"
    /\ UNCHANGED <<fmtIn, toStr, fmtOut, fmtScan>>
    /\ UNCHANGED notFmt

\* Value v = Single<MyColorValueConvert>().Scan(f);
DoScanFormatted ==
    /\ pcFmt = "filtered"
    /\ fmtScan' = Scan(fmtOut)
    /\ pcFmt' = "scanned"
    /\ UNCHANGED <<fmtIn, toStr, fmtOut, filterOut>>
    /\ UNCHANGED notFmt

NextFmt ==
    \/ DoToString
    \/ DoFormat
    \/ DoFilter
    \/ DoScanFormatted

(***************************************************************************)
(*                  SERIALIZATION  (unnamed/part_002)                      *)
(*                                                                         *)
(* A stream is a sequence of bytes (0..255).  A String is stored as its    *)
(* length followed by its bytes, an int as four bytes, least significant   *)
(* first, in two's complement.                                             *)
(***************************************************************************)

\* struct MySerializableObject { String name; int value; }
MySerializableObject(n, v) == [name |-> n, value |-> v]

\* MySerializableObject() : value(0) {}
DefaultSerializableObject == MySerializableObject(<<>>, 0)

\* "TestObject" as bytes.
TestObjectName == <<84, 101, 115, 116, 79, 98, 106, 101, 99, 116>>

\* The bytes names are built from.
NameBytes == {0, 65, 255}

\* The names of the model: every short name and "TestObject".
Names == UNION {[1..k -> NameBytes] : k \in 0..MaxNameLen}
             \cup {TestObjectName}

\* int values: the ends of the 32-bit range, the byte borders, 123.
MinInt32 == -2147483647 - 1

MaxInt32 == 2147483647

IntValues == {MinInt32, -256, -1, 0, 1, 123, 255, 256, 65536, MaxInt32}

\* s % name, storing: the length, then the bytes.
PutString(s) == <<Len(s)>> \o s

\* s % value, storing: four bytes, least significant first.
PutInt32(v) ==
    LET b0 == v % 256
        v1 == v \div 256
        b1 == v1 % 256
        v2 == v1 \div 256
        b2 == v2 % 256
        v3 == v2 \div 256
        b3 == v3 % 256
    IN  <<b0, b1, b2, b3>>

\* s % name, loading from position pos (bytes already read).
GetString(st, pos) ==
    IF pos + 1 > Len(st) THEN [ok |-> FALSE, val |-> <<>>, pos |-> pos]
    ELSE LET n == st[pos + 1] IN
         IF pos + 1 + n > Len(st)
         THEN [ok |-> FALSE, val |-> <<>>, pos |-> pos]
         ELSE [ok |-> TRUE, val |-> SubSeq(st, pos + 2, pos + 1 + n),
               pos |-> pos + 1 + n]

\* s % value, loading from position pos.
GetInt32(st, pos) ==
    IF pos + 4 > Len(st) THEN [ok |-> FALSE, val |-> 0, pos |-> pos]
    ELSE LET b3 == st[pos + 4]
             hi == IF b3 >= 128 THEN b3 - 256 ELSE b3
         IN  [ok |-> TRUE,
              val |-> st[pos + 1]
                        + 256 * (st[pos + 2] + 256 * (st[pos + 3] + 256 * hi)),
              pos |-> pos + 4]

\* Serialize on a storing stream: s % name % value.
SerializeStore(o) == PutString(o.name) \o PutInt32(o.value)

\* Loading that reads the value before the name.
SerializeLoadValueFirst(st) ==
    LET v == GetInt32(st, 0)
        n == GetString(st, v.pos)
    IN  [ok |-> n.ok /\ v.ok,
         obj |-> MySerializableObject(n.val, v.val),
         pos |-> n.pos]

\* Serialize on a loading stream: s % name % value.
SerializeLoad(st) ==
    LET n == GetString(st, 0)
        v == GetInt32(st, n.pos)
    IN  [ok |-> n.ok /\ v.ok,
         obj |-> MySerializableObject(n.val, v.val),
         pos |-> v.pos]

\* StoreAsString(x)
StoreAsString(o) == SerializeStore(o)

\* LoadFromString(x, data): x is loaded when the whole of data is read
\* without error, and keeps its value otherwise.
LoadFromString(x, data) ==
    LET r == SerializeLoad(data) IN
    IF r.ok /\ r.pos = Len(data)
    THEN [ok |-> TRUE, obj |-> r.obj]
    ELSE [ok |-> FALSE, obj |-> x]

InitSer ==
    /\ pcSer = "start"
    /\ \E n \in Names, v \in IntValues :
          originalObject = MySerializableObject(n, v)
    /\ serializedData = <<>>
    /\ deserializedObject = DefaultSerializableObject

\* The variables of the serialization example while another example runs.
IdleSer ==
    /\ pcSer = "off"
    /\ originalObject = DefaultSerializableObject
    /\ serializedData = <<>>
    /\ deserializedObject = DefaultSerializableObject

\* String serializedData = StoreAsString(originalObject);
DoStore ==
    /\ pcSer = "start"
    /\ serializedData' = StoreAsString(originalObject)
    /\ pcSer' = "stored"
    /\ UNCHANGED <<originalObject, deserializedObject>>
    /\ UNCHANGED notSer

\* if (LoadFromString(deserializedObject, serializedData)) ... else ...
DoLoad ==
    /\ pcSer = "stored"
    /\ LET r == LoadFromString(deserializedObject, serializedData) IN
          /\ deserializedObject' = r.obj
          /\ pcSer' = IF r.ok THEN "loaded" ELSE "load_failed"
    /\ UNCHANGED <<originalObject, serializedData>>
    /\ UNCHANGED notSer

\* ASSERT(deserializedObject.name == "TestObject");
\* ASSERT(deserializedObject.value == 123);
\* with the name and the value originalObject was constructed from.
DoAsserts ==
    /\ pcSer = "loaded"
    /\ pcSer' = IF /\ deserializedObject.name = originalObject.name
                   /\ deserializedObject.value = originalObject.value
                THEN "asserted" ELSE "assert_failed"
    /\ UNCHANGED <<originalObject, serializedData, deserializedObject>>
    /\ UNCHANGED notSer

NextSer ==
    \/ DoStore
    \/ DoLoad
    \/ DoAsserts

(***************************************************************************)
(*            DIALOG TEMPLATE  (MyDialogTemplateExample.cpp)               *)
(*                                                                         *)
(* The framework calls are modelled by what CtrlCore and CtrlLib do:       *)
(*   Button::Ok(), Button::Cancel()  set the button's dialog role: Enter   *)
(*       pushes the OK button, Escape the Cancel button; a push calls the  *)
(*       button's WhenAction, and an unassigned WhenAction does nothing;   *)
(*   TopWindow::Accept()  asks every child to accept its data and returns  *)
(*       whether all did; it does not end the modal loop (AcceptBreak(ID)  *)
(*       and the Acceptor callbacks do that);                              *)
(*   TopWindow::Close()  in a modal loop with no Acceptor, Rejector or     *)
(*       Breaker registered ends the loop through AcceptBreak(IDOK).       *)
(***************************************************************************)

\* What the user may type into nameEdit.
DlgNames == {"Default Name", "", "Ann"}

\* The format with "Yes" and "No" exchanged.
PromptTextExchanged(name, featureEnabled) ==
    "Name: " \o name \o "\n" \o "Feature Enabled: "
        \o (IF featureEnabled THEN "No" ELSE "Yes")

\* Format("Name: %s\nFeature Enabled: %s", name, featureEnabled ? "Yes" : "No")
PromptText(name, featureEnabled) ==
    "Name: " \o name \o "\n" \o "Feature Enabled: "
        \o (IF featureEnabled THEN "Yes" ELSE "No")

\* Before the constructors run: the members as their own constructors
\* leave them.
InitDlg ==
    /\ dlgPc = "new"
    /\ nameEdit = ""
    /\ checkOption = FALSE
    /\ okAction = "unassigned"
    /\ cancelAction = "unassigned"
    /\ buttonRole = [okButton |-> "normal", cancelButton |-> "normal"]
    /\ runResult = "none"
    /\ dlgPrompts = <<>>
    /\ okHandled = 0
    /\ cancelPushed = 0

\* The variables of the dialog example while another example runs.
IdleDlg ==
    /\ dlgPc = "off"
    /\ nameEdit = ""
    /\ checkOption = FALSE
    /\ okAction = "unassigned"
    /\ cancelAction = "unassigned"
    /\ buttonRole = [okButton |-> "normal", cancelButton |-> "normal"]
    /\ runResult = "none"
    /\ dlgPrompts = <<>>
    /\ okHandled = 0
    /\ cancelPushed = 0

\* WithMyDialogLayout<TopWindow>() then MyActualDialog(): the roles set by
\* Ok() and Cancel(), the initial control values, the OK callback.
DlgConstruct ==
    /\ dlgPc = "new"
    /\ buttonRole' = [okButton |-> "ok", cancelButton |-> "cancel"]
    /\ nameEdit' = "Default Name"
    /\ checkOption' = TRUE
    /\ okAction' = "handler"
    /\ dlgPc' = "constructed"
    /\ UNCHANGED <<cancelAction, runResult, dlgPrompts, okHandled,
                   cancelPushed>>
    /\ UNCHANGED notDlg

\* MyActualDialog().Run(): the window opens and the modal loop starts.
DlgRun ==
    /\ dlgPc = "constructed"
    /\ dlgPc' = "running"
    /\ UNCHANGED <<nameEdit, checkOption, okAction, cancelAction,
                   buttonRole, runResult, dlgPrompts, okHandled,
                   cancelPushed>>
    /\ UNCHANGED notDlg

\* The user types a name.
UserEditName(n) ==
    /\ dlgPc = "running"
    /\ n # nameEdit
    /\ nameEdit' = n
    /\ UNCHANGED <<dlgPc, checkOption, okAction, cancelAction, buttonRole,
                   runResult, dlgPrompts, okHandled, cancelPushed>>
    /\ UNCHANGED notDlg

\* The user clicks the option.
UserToggleOption ==
    /\ dlgPc = "running"
    /\ checkOption' = ~checkOption
    /\ UNCHANGED <<dlgPc, nameEdit, okAction, cancelAction, buttonRole,
                   runResult, dlgPrompts, okHandled, cancelPushed>>
    /\ UNCHANGED notDlg

\* The user pushes okButton (a click, or Enter: Ok() made it the default
\* button): its WhenAction runs up to PromptOK, which opens a modal prompt.
\*     String name = nameEdit.GetData();
\*     bool featureEnabled = checkOption.Get();
\*     PromptOK(Format(...));
PushOk ==
    /\ dlgPc = "running"
    /\ okHandled < MaxClicks
    /\ IF okAction = "handler"
       THEN /\ dlgPrompts' = Append(dlgPrompts,
                                    PromptText(nameEdit, checkOption))
            /\ dlgPc' = "prompt"
       ELSE UNCHANGED <<dlgPrompts, dlgPc>>
    /\ UNCHANGED <<nameEdit, checkOption, okAction, cancelAction,
                   buttonRole, runResult, okHandled, cancelPushed>>
    /\ UNCHANGED notDlg

\* The user closes the prompt; the handler goes on with
\*     Accept();
\* which accepts the children's data (an EditString and an Option always
\* accept) and returns: the modal loop of the dialog goes on.
PromptClosedThenAccept ==
    /\ dlgPc = "prompt"
    /\ okHandled' = okHandled + 1
    /\ dlgPc' = "running"
    /\ UNCHANGED <<nameEdit, checkOption, okAction, cancelAction,
                   buttonRole, runResult, dlgPrompts, cancelPushed>>
    /\ UNCHANGED notDlg

\* The user pushes cancelButton (a click, or Escape: Cancel() made it the
\* cancel button): its WhenAction is called, and the constructor assigned
\* none.
PushCancel ==
    /\ dlgPc = "running"
    /\ cancelPushed < MaxClicks
    /\ cancelPushed' = cancelPushed + 1
    /\ IF cancelAction = "unassigned"
       THEN UNCHANGED <<dlgPc, runResult>>
       ELSE /\ dlgPc' = "ended"
            /\ runResult' = "IDCANCEL"
    /\ UNCHANGED <<nameEdit, checkOption, okAction, cancelAction,
                   buttonRole, dlgPrompts, okHandled>>
    /\ UNCHANGED notDlg

\* The user closes the window (title bar): TopWindow::Close() finds no
\* registered action and ends the loop with AcceptBreak(IDOK).
DlgCloseWindow ==
    /\ dlgPc = "running"
    /\ dlgPc' = "ended"
    /\ runResult' = "IDOK"
    /\ UNCHANGED <<nameEdit, checkOption, okAction, cancelAction,
                   buttonRole, dlgPrompts, okHandled, cancelPushed>>
    /\ UNCHANGED notDlg

NextDlg ==
    \/ DlgConstruct
    \/ DlgRun
    \/ \E n \in DlgNames : UserEditName(n)
    \/ UserToggleOption
    \/ PushOk
    \/ PromptClosedThenAccept
    \/ PushCancel
    \/ DlgCloseWindow

(***************************************************************************)
(*                 COLORBUTTON  (MyColorButtonExample.cpp)                 *)
(***************************************************************************)

\* Color(r, g, b)
Rgb(r, g, b) == [r |-> r, g |-> g, b |-> b]

\* Color(): the Null color a ColorButton holds before SetColor.
NullRgb == Rgb(-1, -1, -1)

\* Blue()
Blue == Rgb(0, 0, 128)

\* The colors the user can pick in the popup of the button.
Palette == {Blue, Rgb(128, 0, 0), Rgb(255, 255, 255)}

\* Color::ToString
ColorToString(c) ==
    IF c = NullRgb THEN "Color(Null)"
    ELSE "Color(" \o ToString(c.r) \o ", " \o ToString(c.g) \o ", "
             \o ToString(c.b) \o ")"

\* Format("Selected Color: %s", text)
SelectedColorText(text) == "Selected Color: " \o text

\* ColorChanged that writes the log line and leaves the label alone.
ColorChangedLogOnly(btn, label, log) ==
    [label |-> label,
     log   |-> Append(log, "Color changed: " \o ColorToString(btn))]

\* MyColorButtonWindow::ColorChanged: what it leaves in the label and the
\* log, given the color of the button.
ColorChanged(btn, label, log) ==
    LET selected == btn IN
    [label |-> SelectedColorText(ColorToString(selected)),
     log   |-> Append(log, "Color changed: " \o ColorToString(selected))]

InitCb ==
    /\ cbPc = "new"
    /\ colorBtn = NullRgb
    /\ cbWhenAction = "unassigned"
    /\ selectedColorLabel = ""
    /\ cbLog = <<>>
    /\ cbPicked = <<>>

\* The variables of the ColorButton example while another example runs.
IdleCb ==
    /\ cbPc = "off"
    /\ colorBtn = NullRgb
    /\ cbWhenAction = "unassigned"
    /\ selectedColorLabel = ""
    /\ cbLog = <<>>
    /\ cbPicked = <<>>

\* MyColorButtonWindow(): SetColor(Blue()), WhenAction = THISBACK(ColorChanged),
\* the label set from colorBtn.GetData().
CbConstruct ==
    /\ cbPc = "new"
    /\ colorBtn' = Blue
    /\ cbWhenAction' = "ColorChanged"
    /\ selectedColorLabel' = SelectedColorText(ColorToString(colorBtn'))
    /\ cbPc' = "constructed"
    /\ UNCHANGED <<cbLog, cbPicked>>
    /\ UNCHANGED notCb

\* MyColorButtonWindow().Run()
CbRun ==
    /\ cbPc = "constructed"
    /\ cbPc' = "running"
    /\ UNCHANGED <<colorBtn, cbWhenAction, selectedColorLabel, cbLog,
                   cbPicked>>
    /\ UNCHANGED notCb

\* The user picks a color: the button takes it and calls WhenAction once.
UserPicksColor(c) ==
    /\ cbPc = "running"
    /\ Len(cbPicked) < MaxClicks
    /\ colorBtn' = c
    /\ cbPicked' = Append(cbPicked, c)
    /\ IF cbWhenAction = "ColorChanged"
       THEN LET r == ColorChanged(colorBtn', selectedColorLabel, cbLog) IN
            /\ selectedColorLabel' = r.label
            /\ cbLog' = r.log
       ELSE UNCHANGED <<selectedColorLabel, cbLog>>
    /\ UNCHANGED <<cbPc, cbWhenAction>>
    /\ UNCHANGED notCb

\* The user closes the window: Run returns.
CbCloseWindow ==
    /\ cbPc = "running"
    /\ cbPc' = "ended"
    /\ UNCHANGED <<colorBtn, cbWhenAction, selectedColorLabel, cbLog,
                   cbPicked>>
    /\ UNCHANGED notCb

NextCb ==
    \/ CbConstruct
    \/ CbRun
    \/ \E c \in Palette : UserPicksColor(c)
    \/ CbCloseWindow

(***************************************************************************)
(*                    MENUBAR  (MyMenuBarExample.cpp)                      *)
(*                                                                         *)
(* menu.Set(proc) keeps proc and calls it each time the bar or a submenu   *)
(* is built, so the items are the same every time.  TopWindow::Close() of  *)
(* a window in its Run loop ends the loop.  A Ctrl that is destroyed       *)
(* removes itself from its parent.                                         *)
(***************************************************************************)

\* The items the callback given to menu.Set adds to the submenu of top.
MenuItems(top) ==
    IF top = "File" THEN <<"Sub Item 1", "Exit">>
    ELSE IF top = "Help" THEN <<"About">>
    ELSE <<>>

\* The items of submenu top the user can choose.
MenuOffers(top, item) ==
    /\ mbMenuSet
    /\ \E i \in DOMAIN MenuItems(top) : MenuItems(top)[i] = item

\* ExitProgram that does not close the window.
ExitProgramStays(pc, open) == [pc |-> pc, open |-> open]

\* MyMenuBarWindow::ExitProgram: Close() closes the window and ends its loop.
ExitProgram(pc, open) == [pc |-> "ended", open |-> FALSE]

InitMb ==
    /\ mbPc = "new"
    /\ mbMenuSet = FALSE
    /\ mbChildren = {}
    /\ mbLabelAlive = FALSE
    /\ mbOpen = FALSE
    /\ mbShown = <<>>
    /\ mbLast = "none"

\* The variables of the MenuBar example while another example runs.
IdleMb ==
    /\ mbPc = "off"
    /\ mbMenuSet = FALSE
    /\ mbChildren = {}
    /\ mbLabelAlive = FALSE
    /\ mbOpen = FALSE
    /\ mbShown = <<>>
    /\ mbLast = "none"

\* Title, SetRect, menu.Set(...), AddFrame(menu)
MbCtorMenu ==
    /\ mbPc = "new"
    /\ mbMenuSet' = TRUE
    /\ mbPc' = "ctor_menu"
    /\ UNCHANGED <<mbChildren, mbLabelAlive, mbOpen, mbShown, mbLast>>
    /\ UNCHANGED notMb

\* Label label("Check the menu bar at the top!"); label.AlignCenter();
\* Add(label.VCenter().SizePos());
MbCtorAddLabel ==
    /\ mbPc = "ctor_menu"
    /\ mbLabelAlive' = TRUE
    /\ mbChildren' = mbChildren \cup {"label"}
    /\ mbPc' = "ctor_label"
    /\ UNCHANGED <<mbMenuSet, mbOpen, mbShown, mbLast>>
    /\ UNCHANGED notMb

\* The constructor returns: label is a local of the constructor, so it is
\* destroyed here, and the destroyed Ctrl leaves its parent.
MbCtorReturn ==
    /\ mbPc = "ctor_label"
    /\ mbLabelAlive' = FALSE
    /\ mbChildren' = mbChildren \ {"label"}
    /\ mbPc' = "constructed"
    /\ UNCHANGED <<mbMenuSet, mbOpen, mbShown, mbLast>>
    /\ UNCHANGED notMb

\* MyMenuBarWindow().Run()
MbRun ==
    /\ mbPc = "constructed"
    /\ mbOpen' = TRUE
    /\ mbPc' = "running"
    /\ UNCHANGED <<mbMenuSet, mbChildren, mbLabelAlive, mbShown, mbLast>>
    /\ UNCHANGED notMb

\* File > Sub Item 1: SubMenuCb() shows a prompt.
ChooseSubItem1 ==
    /\ mbPc = "running"
    /\ MenuOffers("File", "Sub Item 1")
    /\ Len(mbShown) < MaxClicks
    /\ mbShown' = Append(mbShown, "Submenu item clicked!")
    /\ mbLast' = "Sub Item 1"
    /\ mbPc' = "prompt"
    /\ UNCHANGED <<mbMenuSet, mbChildren, mbLabelAlive, mbOpen>>
    /\ UNCHANGED notMb

\* Help > About: the lambda shows a prompt.
ChooseAbout ==
    /\ mbPc = "running"
    /\ MenuOffers("Help", "About")
    /\ Len(mbShown) < MaxClicks
    /\ mbShown' = Append(mbShown, "A simple MenuBar Example!")
    /\ mbLast' = "About"
    /\ mbPc' = "prompt"
    /\ UNCHANGED <<mbMenuSet, mbChildren, mbLabelAlive, mbOpen>>
    /\ UNCHANGED notMb

\* The user closes the prompt: PromptOK returns and so does the callback.
MbPromptClosed ==
    /\ mbPc = "prompt"
    /\ mbPc' = "running"
    /\ UNCHANGED <<mbMenuSet, mbChildren, mbLabelAlive, mbOpen, mbShown,
                   mbLast>>
    /\ UNCHANGED notMb

\* File > Exit: ExitProgram()
ChooseExit ==
    /\ mbPc = "running"
    /\ MenuOffers("File", "Exit")
    /\ LET r == ExitProgram(mbPc, mbOpen) IN
          /\ mbPc' = r.pc
          /\ mbOpen' = r.open
    /\ mbLast' = "Exit"
    /\ UNCHANGED <<mbMenuSet, mbChildren, mbLabelAlive, mbShown>>
    /\ UNCHANGED notMb

NextMb ==
    \/ MbCtorMenu
    \/ MbCtorAddLabel
    \/ MbCtorReturn
    \/ MbRun
    \/ ChooseSubItem1
    \/ ChooseAbout
    \/ MbPromptClosed
    \/ ChooseExit

(***************************************************************************)
(*                    ARRAYCTRL  (unnamed/part_001)                        *)
(*                                                                         *)
(* ArrayCtrl keeps, per column, a header text and an Id.  The overload     *)
(* AddColumn(const char *text, int w) the constructor calls gives the      *)
(* column a header text and no Id; AddColumn(const Id&, const char *text,  *)
(* int w) is the one that names it.  Set(int i, const Id& id, const Value&)*)
(* looks the Id up with GetPos(id), which is -1 for an Id no column has,   *)
(* and writes cell GetPos(id) of row i.                                    *)
(***************************************************************************)

\* The cells of a row: every cell is a record of the same shape.
CellInt(n) == [type |-> "int", num |-> n, str |-> ""]

CellStr(s) == [type |-> "String", num |-> 0, str |-> s]

CellNull == [type |-> "void", num |-> 0, str |-> ""]

\* The Id of a column added without one.
NoId == ""

\* AddColumn(const char *text, int w)
AcAddColumn(cols, text) == Append(cols, [text |-> text, id |-> NoId])

\* Add(v1, v2)
AcAdd(rows, v1, v2) == Append(rows, <<v1, v2>>)

\* Add(): a row with no values; its cells read as Null.
AcAddEmpty(rows, cols) == Append(rows, [c \in DOMAIN cols |-> CellNull])

\* GetCount()
AcGetCount(rows) == Len(rows)

\* GetPos(const Id&): the 0-based index of the column with this Id, -1
\* when there is none.
RECURSIVE AcGetPosFrom(_, _, _)
AcGetPosFrom(cols, id, i) ==
    IF i > Len(cols) THEN -1
    ELSE IF cols[i].id = id THEN i - 1
    ELSE AcGetPosFrom(cols, id, i + 1)

AcGetPos(cols, id) == AcGetPosFrom(cols, id, 1)

\* Set(int i, int ii, const Value& v)
AcSet(rows, i, ii, v) == [rows EXCEPT ![i + 1][ii + 1] = v]

\* Set(int i, const Id& id, const Value& v) is Set(i, GetPos(id), v).  With
\* GetPos(id) = -1 the write is out of the bounds of the row: a debug build
\* stops at the failed assertion, a release build writes outside the row
\* and goes on or crashes.
AcSetByIdOutcomes(rows, cols, i, id, v) ==
    LET ii == AcGetPos(cols, id) IN
    IF ii # -1
    THEN {[crashed |-> FALSE, rows |-> AcSet(rows, i, ii, v)]}
    ELSE {[crashed |-> TRUE, rows |-> rows],
          [crashed |-> FALSE, rows |-> rows]}

InitAc ==
    /\ acPc = "new"
    /\ acColumns = <<>>
    /\ acRows = <<>>
    /\ lastRowIndex = -1
    /\ acSelected = {}

\* The variables of the ArrayCtrl example while another example runs.
IdleAc ==
    /\ acPc = "off"
    /\ acColumns = <<>>
    /\ acRows = <<>>
    /\ lastRowIndex = -1
    /\ acSelected = {}

\* dataList.AddColumn("ID", 50); dataList.AddColumn("Name", 150)...
AcCtorColumns ==
    /\ acPc = "new"
    /\ acColumns' = AcAddColumn(AcAddColumn(acColumns, "ID"), "Name")
    /\ acPc' = "columns"
    /\ UNCHANGED <<acRows, lastRowIndex, acSelected>>
    /\ UNCHANGED notAc

\* dataList.Add(1, "Alice"); dataList.Add(2, "Bob"); dataList.Add(3, "Charlie");
AcCtorRows ==
    /\ acPc = "columns"
    /\ acRows' = AcAdd(AcAdd(AcAdd(acRows, CellInt(1), CellStr("Alice")),
                             CellInt(2), CellStr("Bob")),
                       CellInt(3), CellStr("Charlie"))
    /\ acPc' = "rows"
    /\ UNCHANGED <<acColumns, lastRowIndex, acSelected>>
    /\ UNCHANGED notAc

\* dataList.Add(); int lastRowIndex = dataList.GetCount() - 1;
AcCtorEmptyRow ==
    /\ acPc = "rows"
    /\ acRows' = AcAddEmpty(acRows, acColumns)
    /\ lastRowIndex' = AcGetCount(acRows') - 1
    /\ acPc' = "empty_row"
    /\ UNCHANGED <<acColumns, acSelected>>
    /\ UNCHANGED notAc

\* dataList.Set(lastRowIndex, 0, 4);
AcCtorSetId ==
    /\ acPc = "empty_row"
    /\ acRows' = AcSet(acRows, lastRowIndex, 0, CellInt(4))
    /\ acPc' = "set_id"
    /\ UNCHANGED <<acColumns, lastRowIndex, acSelected>>
    /\ UNCHANGED notAc

\* dataList.Set(lastRowIndex, "Name", "David");   (line 30)
AcCtorSetName ==
    /\ acPc = "set_id"
    /\ \E o \in AcSetByIdOutcomes(acRows, acColumns, lastRowIndex, "Name",
                                  CellStr("David")) :
          /\ acRows' = o.rows
          /\ acPc' = IF o.crashed THEN "crashed" ELSE "set_name"
    /\ UNCHANGED <<acColumns, lastRowIndex, acSelected>>
    /\ UNCHANGED notAc

\* dataList.Set(lastRowIndex, "Name", "David");   (line 38)
\* Add(dataList.SizePos()); dataList.MultiSelect(); dataList.SetLineCy(20);
AcCtorSetNameAgain ==
    /\ acPc = "set_name"
    /\ \E o \in AcSetByIdOutcomes(acRows, acColumns, lastRowIndex, "Name",
                                  CellStr("David")) :
          /\ acRows' = o.rows
          /\ acPc' = IF o.crashed THEN "crashed" ELSE "constructed"
    /\ UNCHANGED <<acColumns, lastRowIndex, acSelected>>
    /\ UNCHANGED notAc

\* MyArrayCtrlWindow().Run()
AcRun ==
    /\ acPc = "constructed"
    /\ acPc' = "running"
    /\ UNCHANGED <<acColumns, acRows, lastRowIndex, acSelected>>
    /\ UNCHANGED notAc

\* The user selects or unselects a row (MultiSelect).
UserTogglesRow(r) ==
    /\ acPc = "running"
    /\ acSelected' = IF r \in acSelected THEN acSelected \ {r}
                     ELSE acSelected \cup {r}
    /\ UNCHANGED <<acPc, acColumns, acRows, lastRowIndex>>
    /\ UNCHANGED notAc

\* The user closes the window: Run returns.
AcCloseWindow ==
    /\ acPc = "running"
    /\ acPc' = "ended"
    /\ UNCHANGED <<acColumns, acRows, lastRowIndex, acSelected>>
    /\ UNCHANGED notAc

NextAc ==
    \/ AcCtorColumns
    \/ AcCtorRows
    \/ AcCtorEmptyRow
    \/ AcCtorSetId
    \/ AcCtorSetName
    \/ AcCtorSetNameAgain
    \/ AcRun
    \/ \E r \in DOMAIN acRows : UserTogglesRow(r)
    \/ AcCloseWindow

(***************************************************************************)
(*              TREECTRL  (MyTreeCtrlExample.cpp, lines 1-42)              *)
(*                                                                         *)
(* A TreeCtrl starts with one item, the root with id 0.  Add(parentid,     *)
(* image, value) makes a new item, appends its id to the children of       *)
(* parentid and returns the id; while no item was removed the ids are      *)
(* 1, 2, 3, ... in the order of the calls.  Open(id) opens an item that    *)
(* can be opened: one that has children (an item added without the         *)
(* withopen argument has canopen = false).  Whether the item with id 0 is  *)
(* open in a new TreeCtrl is left open: both are initial states.           *)
(***************************************************************************)

\* One item of the tree.
TreeItem(parent, value, isopen) ==
    [parent |-> parent, value |-> value, child |-> <<>>, isopen |-> isopen]

\* The item with id 0 of a new TreeCtrl.
TreeRoot(isopen) == TreeItem(-1, "", isopen)

\* The id Add returns: the index of the new item.
TreeNewId(items) == Len(items)

\* Add that puts the new item before its siblings.
TreeAddFirst(items, parentid, value) ==
    LET id == TreeNewId(items) IN
    Append([items EXCEPT ![parentid + 1].child = <<id>> \o @],
           TreeItem(parentid, value, FALSE))

\* tree.Add(parentid, Null, value): the items after the call.
TreeAdd(items, parentid, value) ==
    LET id == TreeNewId(items) IN
    Append([items EXCEPT ![parentid + 1].child = Append(@, id)],
           TreeItem(parentid, value, FALSE))

\* tree.Open(id)
TreeOpen(items, id) ==
    IF ~items[id + 1].isopen /\ items[id + 1].child # <<>>
    THEN [items EXCEPT ![id + 1].isopen = TRUE]
    ELSE items

\* What the user's click on the open/close mark of an item does.
TreeToggle(items, id) ==
    IF items[id + 1].child # <<>>
    THEN [items EXCEPT ![id + 1].isopen = ~@]
    ELSE items

InitTr ==
    /\ trPc = "new"
    /\ \E o \in BOOLEAN : trItems = <<TreeRoot(o)>>
    /\ rootNodeId = -1
    /\ childNode2Id = -1

\* The variables of the TreeCtrl example while another example runs.
IdleTr ==
    /\ trPc = "off"
    /\ trItems = <<>>
    /\ rootNodeId = -1
    /\ childNode2Id = -1

\* int rootNodeId = tree.Add(0, Null, "Root Node");
TrAddRoot ==
    /\ trPc = "new"
    /\ rootNodeId' = TreeNewId(trItems)
    /\ trItems' = TreeAdd(trItems, 0, "Root Node")
    /\ trPc' = "root"
    /\ UNCHANGED childNode2Id
    /\ UNCHANGED notTr

\* tree.Add(rootNodeId, Null, "Child Node 1");
\* tree.Add(rootNodeId, Null, "Child Node 2");
TrAddChildren ==
    /\ trPc = "root"
    /\ trItems' = TreeAdd(TreeAdd(trItems, rootNodeId, "Child Node 1"),
                          rootNodeId, "Child Node 2")
    /\ trPc' = "children"
    /\ UNCHANGED <<rootNodeId, childNode2Id>>
    /\ UNCHANGED notTr

\* int childNode2Id = tree.Add(rootNodeId, Null, "Child Node 3 with children");
TrAddThirdChild ==
    /\ trPc = "children"
    /\ childNode2Id' = TreeNewId(trItems)
    /\ trItems' = TreeAdd(trItems, rootNodeId, "Child Node 3 with children")
    /\ trPc' = "third"
    /\ UNCHANGED rootNodeId
    /\ UNCHANGED notTr

\* tree.Add(childNode2Id, Null, "Grandchild 3.1");
\* tree.Add(childNode2Id, Null, "Grandchild 3.2");
TrAddGrandchildren ==
    /\ trPc = "third"
    /\ trItems' = TreeAdd(TreeAdd(trItems, childNode2Id, "Grandchild 3.1"),
                          childNode2Id, "Grandchild 3.2")
    /\ trPc' = "grandchildren"
    /\ UNCHANGED <<rootNodeId, childNode2Id>>
    /\ UNCHANGED notTr

\* tree.Open(rootNodeId); tree.Open(childNode2Id); Add(tree.SizePos());
TrOpen ==
    /\ trPc = "grandchildren"
    /\ trItems' = TreeOpen(TreeOpen(trItems, rootNodeId), childNode2Id)
    /\ trPc' = "constructed"
    /\ UNCHANGED <<rootNodeId, childNode2Id>>
    /\ UNCHANGED notTr

\* MyTreeCtrlWindow().Run()
TrRun ==
    /\ trPc = "constructed"
    /\ trPc' = "running"
    /\ UNCHANGED <<trItems, rootNodeId, childNode2Id>>
    /\ UNCHANGED notTr

\* The user opens or closes an item.
UserTogglesItem(id) ==
    /\ trPc = "running"
    /\ trItems' = TreeToggle(trItems, id)
    /\ trItems' # trItems
    /\ UNCHANGED <<trPc, rootNodeId, childNode2Id>>
    /\ UNCHANGED notTr

\* The user closes the window: Run returns.
TrCloseWindow ==
    /\ trPc = "running"
    /\ trPc' = "ended"
    /\ UNCHANGED <<trItems, rootNodeId, childNode2Id>>
    /\ UNCHANGED notTr

NextTr ==
    \/ TrAddRoot
    \/ TrAddChildren
    \/ TrAddThirdChild
    \/ TrAddGrandchildren
    \/ TrOpen
    \/ TrRun
    \/ \E id \in 0..(Len(trItems) - 1) : UserTogglesItem(id)
    \/ TrCloseWindow

(***************************************************************************)
(*      BUTTONAPP  (UppApplicationSessionGuide.md, "Simple GUI Button")    *)
(*                                                                         *)
(* clickMe <<= lambda assigns the lambda to clickMe.WhenAction; a click    *)
(* on the button calls WhenAction once, in the GUI thread, and the next    *)
(* event is handled when the callback has returned.                        *)
(***************************************************************************)

\* void Refresh() { info = Format("Clicks: %d", count); }: the text of info
\* after the call.
Refresh(cnt) == "Clicks: " \o ToString(cnt)

\* A handler that counts and leaves the label alone.
ClickHandlerNoRefresh(cnt, text) == [count |-> cnt + 1, info |-> text]

\* [=]{ ++count; Refresh(); }: count and the text of info after the call.
ClickHandler(cnt, text) ==
    LET c == cnt + 1 IN [count |-> c, info |-> Refresh(c)]

\* Before the constructor body runs: int count = 0, an empty Label.
InitBa ==
    /\ baPc = "new"
    /\ count = 0
    /\ info = ""
    /\ baWhenAction = "unassigned"
    /\ baClicks = 0

\* The variables of ButtonApp while another example runs.
IdleBa ==
    /\ baPc = "off"
    /\ count = 0
    /\ info = ""
    /\ baWhenAction = "unassigned"
    /\ baClicks = 0

\* ButtonApp(): the callback is assigned, then ... Refresh();
BaConstruct ==
    /\ baPc = "new"
    /\ baWhenAction' = "handler"
    /\ info' = Refresh(count)
    /\ baPc' = "constructed"
    /\ UNCHANGED <<count, baClicks>>
    /\ UNCHANGED notBa

\* ButtonApp().Run()
BaRun ==
    /\ baPc = "constructed"
    /\ baPc' = "running"
    /\ UNCHANGED <<count, info, baWhenAction, baClicks>>
    /\ UNCHANGED notBa

\* The user clicks clickMe: its WhenAction is called.
UserClicksClickMe ==
    /\ baPc = "running"
    /\ baClicks < MaxButtonClicks
    /\ baClicks' = baClicks + 1
    /\ IF baWhenAction = "handler"
       THEN LET r == ClickHandler(count, info) IN
            /\ count' = r.count
            /\ info' = r.info
       ELSE UNCHANGED <<count, info>>
    /\ UNCHANGED <<baPc, baWhenAction>>
    /\ UNCHANGED notBa

\* The user closes the window: Run returns.
BaCloseWindow ==
    /\ baPc = "running"
    /\ baPc' = "ended"
    /\ UNCHANGED <<count, info, baWhenAction, baClicks>>
    /\ UNCHANGED notBa

NextBa ==
    \/ BaConstruct
    \/ BaRun
    \/ UserClicksClickMe
    \/ BaCloseWindow

(***************************************************************************)
(*   LAYOUT-FILE LOOKUP  (UppApplicationSessionGuide.md, lines 75-81)      *)
(*                                                                         *)
(* A path is a sequence of components.  The guide's rule: the path of      *)
(* #define LAYOUTFILE <path> is relative to an include path of the .upp    *)
(* file; the build system prepends the include path and searches for the   *)
(* result.  An include declaration "/ui" is the directory ui of the        *)
(* package, the empty declaration is the package directory itself.         *)
(***************************************************************************)

\* The include declarations a .upp file of the model can hold.
IncludeDirs == {<<>>, <<"ui">>, <<"include">>}

\* The LAYOUTFILE paths of the model: the three the guide shows (lines 80,
\* 81, 161) and the layout's own location.
LayoutPaths ==
    {<<"MyLayout.lay">>,
     <<"MyPackage", "ui", "MyLayout.lay">>,
     <<"MyApp", "ui", "MyLayout.lay">>,
     <<"ui", "MyLayout.lay">>}

\* Where the package can store the layout.
LayoutFiles ==
    {<<"ui", "MyLayout.lay">>, <<"MyLayout.lay">>,
     <<"include", "MyLayout.lay">>}

\* "the build system will prepend the include path"
Resolve(inc, path) == inc \o path

\* The files searched for: one per include path.
Searched(includes, path) == {Resolve(inc, path) : inc \in includes}

InitLay ==
    /\ layPc = "input"
    /\ layIncludes \in SUBSET IncludeDirs
    /\ layFile \in LayoutFiles
    /\ layPath \in LayoutPaths
    /\ laySearched = {}
    /\ layFound = FALSE

\* The variables of the lookup while an example runs.
IdleLay ==
    /\ layPc = "off"
    /\ layIncludes = {}
    /\ layFile = <<>>
    /\ layPath = <<>>
    /\ laySearched = {}
    /\ layFound = FALSE

\* The build resolves #define LAYOUTFILE <layPath>.
LookupLayout ==
    /\ layPc = "input"
    /\ laySearched' = Searched(layIncludes, layPath)
    /\ layFound' = (layFile \in laySearched')
    /\ layPc' = "looked_up"
    /\ UNCHANGED <<layIncludes, layFile, layPath>>
    /\ UNCHANGED notLay

NextLay == LookupLayout

(***************************************************************************)
(*   DISPLAY/CONVERT TEST WINDOW  (unnamed/part_000, lines 95-157, 217)    *)
(*                                                                         *)
(* MyDisplayTestWindow holds a MyColorValueCtrl, an EditString, a Button   *)
(* and a Label.  The button's callback scans the text of the edit field    *)
(* with MyColorValueConvert::Scan (the operator Scan above) and calls      *)
(* myCtrl.SetData on success.                                              *)
(*                                                                         *)
(* MyColorValueCtrl declares its setter at line 107 as                     *)
(*     voidSetData(const MyColorValue& mcv) { data = mcv; Refresh(); }     *)
(* that is, a member named voidSetData: the class has no member SetData    *)
(* of its own.  The name SetData in myCtrl.SetData(...) (lines 137, 147)   *)
(* therefore denotes the member inherited from Ctrl,                       *)
(*     virtual void SetData(const Value& data);                            *)
(* whose implementation in Ctrl does nothing.  (A conforming compiler      *)
(* rejects line 107, a declaration without a type, and the two calls,      *)
(* which have no conversion from MyColorValue to Value; no build of the    *)
(* file as written runs the body of lines 108-109.)                        *)
(*                                                                         *)
(* The texts of the model are over the alphabet of Scan; the color         *)
(* literal has HexLen hex digits where "#FFA500" has six.                  *)
(***************************************************************************)

\* A color literal: '#' and HexLen times the hex digit ch.
HexLiteral(ch) == <<"#">> \o [i \in 1..HexLen |-> ch]

\* editField.SetText("Orange (#FFA500)"): a name, a blank and a color
\* literal in brackets.
OrangeText == <<"a", " ", "(">> \o HexLiteral("a") \o <<")">>

\* The texts the user types into editField.
EditTexts ==
    { OrangeText,
      <<>>,
      <<"a">>,
      <<"a", " ", "(">> \o HexLiteral("0") \o <<")">>,
      <<"(">> \o HexLiteral("a") \o <<")", ")">>,
      <<"a", "(", "a", ")">>,
      <<"a", " ", "(", "0", ")">>,
      <<"a", " ", "(">> \o HexLiteral("a") }

\* MyColorValueCtrl() { data = MyColorValue(Cyan(), "Default"); }
DefaultData ==
    MyColorValue(255 * 256 + 255, <<"D", "e", "f", "a", "u", "l", "t">>)

\* MyColorValue(Magenta(), "Magenta Sample"), the argument of line 137.
MagentaSample ==
    MyColorValue(255 * 65536 + 255,
                 <<"M", "a", "g", "e", "n", "t", "a", " ",
                   "S", "a", "m", "p", "l", "e">>)

\* The member of lines 107-110, { data = mcv; Refresh(); }: the data of the
\* control after the call.  Its name is voidSetData; nothing calls it.
voidSetData(data, mcv) == mcv

\* myCtrl.SetData(x): Ctrl::SetData(const Value&), which leaves the control
\* as it is.
SetData(data, mcv) == data

\* The callback of convertButton (lines 144-152): myCtrl.data and the text
\* of resultLabel after the call.
ConvertHandler(data, text) ==
    LET scannedVal == Scan(StringValue(text)) IN
    IF IsMyColorValue(scannedVal)
    THEN [data  |-> SetData(data, MyColorValue(scannedVal.colorVal,
                                               scannedVal.name)),
          label |-> "Conversion successful!"]
    ELSE [data  |-> data,
          label |-> "Conversion failed. Try 'Name (ColorSpec)' e.g. 'Lime (#00FF00)'"]

\* The members are constructed, the constructor body has not run.
InitDt ==
    /\ dtPc = "new"
    /\ myCtrlData = DefaultData
    /\ editField = <<>>
    /\ resultLabel = ""
    /\ convertAction = "unassigned"
    /\ dtDataAtClick = DefaultData

\* The variables of the test window while another example runs.
IdleDt ==
    /\ dtPc = "off"
    /\ myCtrlData = DefaultData
    /\ editField = <<>>
    /\ resultLabel = ""
    /\ convertAction = "unassigned"
    /\ dtDataAtClick = DefaultData

\* MyDisplayTestWindow(): myCtrl.SetData(...), editField.SetText(...),
\* convertButton << lambda.
DtConstruct ==
    /\ dtPc = "new"
    /\ myCtrlData' = SetData(myCtrlData, MagentaSample)
    /\ editField' = OrangeText
    /\ convertAction' = "handler"
    /\ dtPc' = "constructed"
    /\ UNCHANGED <<resultLabel, dtDataAtClick>>
    /\ UNCHANGED notDt

\* MyDisplayTestWindow().Run()
DtRun ==
    /\ dtPc = "constructed"
    /\ dtPc' = "running"
    /\ UNCHANGED <<myCtrlData, editField, resultLabel, convertAction,
                   dtDataAtClick>>
    /\ UNCHANGED notDt

\* The user replaces the text of editField.
UserEditsText ==
    /\ dtPc = "running"
    /\ \E text \in EditTexts \ {editField} : editField' = text
    /\ UNCHANGED <<dtPc, myCtrlData, resultLabel, convertAction,
                   dtDataAtClick>>
    /\ UNCHANGED notDt

\* The user clicks convertButton: its WhenAction is called.
UserClicksConvert ==
    /\ dtPc = "running"
    /\ dtDataAtClick' = myCtrlData
    /\ IF convertAction = "handler"
       THEN LET r == ConvertHandler(myCtrlData, editField) IN
            /\ myCtrlData' = r.data
            /\ resultLabel' = r.label
       ELSE UNCHANGED <<myCtrlData, resultLabel>>
    /\ dtPc' = "handled"
    /\ UNCHANGED <<editField, convertAction>>
    /\ UNCHANGED notDt

\* The callback has returned: the event loop takes the next event.
DtHandlerReturns ==
    /\ dtPc = "handled"
    /\ dtPc' = "running"
    /\ UNCHANGED <<myCtrlData, editField, resultLabel, convertAction,
                   dtDataAtClick>>
    /\ UNCHANGED notDt

\* The user closes the window: Run returns.
DtCloseWindow ==
    /\ dtPc = "running"
    /\ dtPc' = "ended"
    /\ UNCHANGED <<myCtrlData, editField, resultLabel, convertAction,
                   dtDataAtClick>>
    /\ UNCHANGED notDt

NextDt ==
    \/ DtConstruct
    \/ DtRun
    \/ UserEditsText
    \/ UserClicksConvert
    \/ DtHandlerReturns
    \/ DtCloseWindow

(***************************************************************************)
(*                           SPECIFICATIONS                                *)
(***************************************************************************)
IdleGui ==
    /\ IdleDlg
    /\ IdleCb
    /\ IdleMb
    /\ IdleAc
    /\ IdleTr
    /\ IdleBa
    /\ IdleDt

StartSum ==
    InitSum /\ IdleScan /\ IdleSer /\ IdleGui /\ IdleLay /\ IdleFmt

SpecSum == StartSum /\ [][NextSum]_vars

\* The threads of the pool and the main thread get processor time: a step
\* that stays possible is taken.
SpecSumFair == StartSum /\ [][NextSum]_vars /\ WF_vars(NextSum)

StartScan ==
    InitScan /\ IdleSum /\ IdleSer /\ IdleGui /\ IdleLay /\ IdleFmt

SpecScan == StartScan /\ [][NextScan]_vars

StartSerial ==
    InitSer /\ IdleSum /\ IdleScan /\ IdleGui /\ IdleLay /\ IdleFmt

SpecSerial == StartSerial /\ [][NextSer]_vars

\* One of the GUI examples is started.
StartGui ==
    /\ IdleSum /\ IdleScan /\ IdleSer /\ IdleLay /\ IdleFmt
    /\ \/ InitDlg /\ IdleCb /\ IdleMb /\ IdleAc /\ IdleTr /\ IdleBa /\ IdleDt
       \/ IdleDlg /\ InitCb /\ IdleMb /\ IdleAc /\ IdleTr /\ IdleBa /\ IdleDt
       \/ IdleDlg /\ IdleCb /\ InitMb /\ IdleAc /\ IdleTr /\ IdleBa /\ IdleDt
       \/ IdleDlg /\ IdleCb /\ IdleMb /\ InitAc /\ IdleTr /\ IdleBa /\ IdleDt
       \/ IdleDlg /\ IdleCb /\ IdleMb /\ IdleAc /\ InitTr /\ IdleBa /\ IdleDt
       \/ IdleDlg /\ IdleCb /\ IdleMb /\ IdleAc /\ IdleTr /\ InitBa /\ IdleDt
       \/ IdleDlg /\ IdleCb /\ IdleMb /\ IdleAc /\ IdleTr /\ IdleBa /\ InitDt

NextGui ==
    \/ NextDlg
    \/ NextCb
    \/ NextMb
    \/ NextAc
    \/ NextTr
    \/ NextBa
    \/ NextDt

SpecGui == StartGui /\ [][NextGui]_vars

StartLayout ==
    InitLay /\ IdleSum /\ IdleScan /\ IdleSer /\ IdleGui /\ IdleFmt

SpecLayout == StartLayout /\ [][NextLay]_vars

StartFormat ==
    InitFmt /\ IdleSum /\ IdleScan /\ IdleSer /\ IdleGui /\ IdleLay

SpecFormat == StartFormat /\ [][NextFmt]_vars

(***************************************************************************)
(*                               CLAIMS                                    *)
(***************************************************************************)

(***************************************************************************)
(* C1: in the parallel-sum example, for every split of the list into       *)
(* subranges and every interleaving of the workers' atomic additions, the  *)
(* value of totalSum read after CoPartition returns equals the             *)
(* sequentially computed sum, so ASSERT(totalSum == expectedSum) never     *)
(* fails.                                                                  *)
(***************************************************************************)
C1_SumCorrect ==
    /\ pcMain # "assert_failed"
    /\ pcMain \in {"summed", "logged", "expected", "asserted"}
          => totalSum = (NumCount * (NumCount + 1)) \div 2
    /\ pcMain \in {"logged", "expected", "asserted"}
          => loggedTotal = (NumCount * (NumCount + 1)) \div 2
    /\ pcMain \in {"expected", "asserted"} => totalSum = expectedSum

\* The assertion was reached after a split into several subranges.
C1_Witness ==
    /\ pcMain = "asserted"
    /\ Len(ranges) >= 2

(***************************************************************************)
(* What the claims about Scan say of a String, stated on the characters    *)
(* themselves.                                                             *)
(***************************************************************************)
\* s has a character ch.
Has(s, ch) == \E i \in 1..Len(s) : s[i] = ch

\* The first ch of s is its i-th character (counted from 1).
FirstAt(s, ch, i) ==
    /\ i \in 1..Len(s)
    /\ s[i] = ch
    /\ \A k \in 1..(i - 1) : s[k] # ch

\* t is u without its leading and trailing blanks.
IsTrimOf(t, u) ==
    \E i \in 1..(Len(u) + 1), j \in 0..Len(u) :
        /\ t = SubSeq(u, i, j)
        /\ \A k \in 1..(i - 1) : u[k] = " "
        /\ \A k \in (j + 1)..Len(u) : u[k] = " "
        /\ t # <<>> => (t[1] # " " /\ t[Len(t)] # " ")

\* Every substring of u.
SubStrings(u) == {SubSeq(u, i, j) : i \in 1..(Len(u) + 1), j \in 0..Len(u)}

\* The blank-trimmed u is a color Color::Scan parses.
ParsableTrimmed(u) ==
    \E t \in SubStrings(u) : IsTrimOf(t, u) /\ ColorScan(t).ok

\* The ways a Value fails to parse.
NotAString(q) == ~IsString(q)

MissingBracket(q) ==
    /\ IsString(q)
    /\ ~Has(q.text, "(") \/ ~Has(q.text, ")")

BracketsTooClose(q) ==
    /\ IsString(q)
    /\ \E o, c \in 1..Len(q.text) :
          /\ FirstAt(q.text, "(", o)
          /\ FirstAt(q.text, ")", c)
          /\ c < o + 2

UnparsableColor(q) ==
    /\ IsString(q)
    /\ \E o, c \in 1..Len(q.text) :
          /\ FirstAt(q.text, "(", o)
          /\ FirstAt(q.text, ")", c)
          /\ c >= o + 2
          /\ ~ParsableTrimmed(SubSeq(q.text, o + 1, c - 1))

(***************************************************************************)
(* C2: MyColorValueConvert::Scan returns the framework error value, and    *)
(* never a MyColorValue, for every input that fails to parse: an input     *)
(* that is not a string, a string with no '(' or no ')', a string whose    *)
(* first ')' is not at least two positions after its first '(', and a      *)
(* string whose (blank-trimmed) text between the brackets is not a         *)
(* parsable color.                                                         *)
(***************************************************************************)
C2_ScanFailureIsError ==
    (/\ pcScan = "scanned"
     /\ \/ NotAString(scanIn)
        \/ MissingBracket(scanIn)
        \/ BracketsTooClose(scanIn)
        \/ UnparsableColor(scanIn))
        => (scanOut = ErrorValue /\ ~IsMyColorValue(scanOut))

\* Scan has returned on a named string whose brackets are far enough apart
\* but hold no color.
C2_Witness ==
    /\ pcScan = "scanned"
    /\ UnparsableColor(scanIn)
    /\ Find(scanIn.text, "(") > 0
    /\ IsError(scanOut)

(***************************************************************************)
(* C3: for every string of the form "Name (ColorSpec)" whose ColorSpec is  *)
(* a parsable color, Scan returns a MyColorValue whose name is the text    *)
(* before the first '(' with leading and trailing whitespace removed and   *)
(* whose colorVal is the color parsed from the whitespace-trimmed text     *)
(* between the first '(' and the first ')'.                                *)
(***************************************************************************)
C3_ScanParsesNameAndColor ==
    (pcScan = "scanned" /\ IsString(scanIn)) =>
        \A o, c \in 1..Len(scanIn.text) :
            (/\ FirstAt(scanIn.text, "(", o)
             /\ FirstAt(scanIn.text, ")", c)
             /\ c >= o + 2
             /\ ParsableTrimmed(SubSeq(scanIn.text, o + 1, c - 1)))
            => /\ IsMyColorValue(scanOut)
               /\ IsTrimOf(scanOut.name, SubSeq(scanIn.text, 1, o - 1))
               /\ \E t \in SubStrings(SubSeq(scanIn.text, o + 1, c - 1)) :
                     /\ IsTrimOf(t, SubSeq(scanIn.text, o + 1, c - 1))
                     /\ ColorScan(t).ok
                     /\ scanOut.colorVal = ColorScan(t).color

\* Scan has returned on "a (#0a)"-like input: a name, a blank that is
\* trimmed, and a color between the brackets.
C3_Witness ==
    /\ pcScan = "scanned"
    /\ IsString(scanIn)
    /\ IsMyColorValue(scanOut)
    /\ scanOut.name = <<"a">>
    /\ Find(scanIn.text, "(") = 2
    /\ scanOut.colorVal # NullColor

(***************************************************************************)
(* C4: serialization round trip: for every MySerializableObject o,         *)
(* LoadFromString applied to a default-constructed object with the string  *)
(* StoreAsString(o) succeeds and leaves that object with name and value    *)
(* equal to o's, so both ASSERTs hold; the fields are written and read in  *)
(* the same order (name, then value).                                      *)
(***************************************************************************)
C4_RoundTrip ==
    /\ pcSer \notin {"load_failed", "assert_failed"}
    /\ pcSer \in {"loaded", "asserted"}
          => /\ deserializedObject.name = originalObject.name
             /\ deserializedObject.value = originalObject.value
    /\ pcSer \in {"stored", "loaded", "asserted"}
          => \E k \in 0..Len(serializedData) :
                /\ serializedData[1] = Len(originalObject.name)
                /\ k = 1 + Len(originalObject.name)
                /\ SubSeq(serializedData, 2, k) = originalObject.name
                /\ Len(serializedData) = k + 4

\* ("TestObject", 123) went through the round trip and both ASSERTs held.
C4_Witness ==
    /\ pcSer = "asserted"
    /\ originalObject = MySerializableObject(TestObjectName, 123)
    /\ deserializedObject = originalObject

(***************************************************************************)
(* C5: in the dialog-template example, whenever the user clicks the OK     *)
(* button while the dialog is running, the dialog is accepted: once the    *)
(* OK handler has run (its prompt closed, Accept() called), the modal Run  *)
(* loop has ended and Run has returned IDOK.  The statement goes on with   *)
(* "Run returns IDOK only if the OK handler ran"; the formula is its first *)
(* half, which the second half does not weaken.                            *)
(***************************************************************************)
C5_OkAcceptsDialog ==
    (okHandled > 0 /\ dlgPc # "prompt")
        => (dlgPc = "ended" /\ runResult = "IDOK")

(***************************************************************************)
(* C6: in the dialog-template example, clicking the Cancel button rejects  *)
(* the dialog: the modal Run loop ends with a result other than IDOK and   *)
(* the OK prompt is not shown, although the constructor assigns no         *)
(* callback to cancelButton and only marks it with Cancel().               *)
(***************************************************************************)
C6_CancelRejectsDialog ==
    cancelPushed > 0
        => /\ dlgPc = "ended"
           /\ runResult \notin {"none", "IDOK"}
           /\ okHandled = 0 => dlgPrompts = <<>>

(***************************************************************************)
(* C7: in the ColorButton example the label always shows the button's      *)
(* current color: after construction (initial color Blue) and after any    *)
(* sequence of user color changes, each of which fires WhenAction once,    *)
(* the text of selectedColorLabel equals "Selected Color: " followed by    *)
(* the string form of the color colorBtn holds, and each change writes     *)
(* exactly one "Color changed" log line with that same color.              *)
(***************************************************************************)
C7_LabelShowsColor ==
    cbPc \in {"constructed", "running", "ended"} =>
        /\ selectedColorLabel = "Selected Color: " \o ColorToString(colorBtn)
        /\ colorBtn = IF cbPicked = <<>> THEN Blue
                      ELSE cbPicked[Len(cbPicked)]
        /\ Len(cbLog) = Len(cbPicked)
        /\ \A i \in DOMAIN cbLog :
              cbLog[i] = "Color changed: " \o ColorToString(cbPicked[i])

\* The user has changed the color twice, the second time to another color.
C7_Witness ==
    /\ cbPc = "running"
    /\ Len(cbPicked) >= 2
    /\ cbPicked[1] # cbPicked[2]
    /\ colorBtn # Blue

C9_LabelIsLiveChild ==
    mbPc \in {"constructed", "running", "prompt"}
        => (mbLabelAlive /\ "label" \in mbChildren)

(***************************************************************************)
(* C10: in the ArrayCtrl example, after the constructor finishes dataList  *)
(* has exactly two columns ("ID", "Name") and exactly four rows, in order  *)
(* (1, "Alice"), (2, "Bob"), (3, "Charlie"), (4, "David"); lastRowIndex    *)
(* denotes the row appended by the argument-less Add().                    *)
(***************************************************************************)
C10_ArrayCtrlContent ==
    acPc \in {"constructed", "running", "ended"} =>
        /\ Len(acColumns) = 2
        /\ acColumns[1].text = "ID"
        /\ acColumns[2].text = "Name"
        /\ lastRowIndex = 3
        /\ acRows = << <<CellInt(1), CellStr("Alice")>>,
                       <<CellInt(2), CellStr("Bob")>>,
                       <<CellInt(3), CellStr("Charlie")>>,
                       <<CellInt(4), CellStr("David")>> >>

(***************************************************************************)
(* C11: in the TreeCtrl example every Add uses as parent either the root   *)
(* id 0 or an id returned by an earlier Add, so the constructed tree is    *)
(* well formed: one "Root Node" under id 0, exactly three children under   *)
(* it in insertion order ("Child Node 1", "Child Node 2", "Child Node 3    *)
(* with children"), exactly two grandchildren ("Grandchild 3.1",           *)
(* "Grandchild 3.2") under the third child and under no other node, and,   *)
(* when the constructor has finished, exactly the root node and the third  *)
(* child are opened among the added items.                                 *)
(***************************************************************************)
TreeValues(ids) == [k \in DOMAIN ids |-> trItems[ids[k] + 1].value]

C11_TreeWellFormed ==
    /\ \A i \in 2..Len(trItems) :
          /\ trItems[i].parent \in 0..(i - 2)
          /\ \E k \in DOMAIN trItems[trItems[i].parent + 1].child :
                trItems[trItems[i].parent + 1].child[k] = i - 1
    /\ trPc \in {"constructed", "running", "ended"} =>
          /\ Len(trItems) = 7
          /\ TreeValues(trItems[1].child) = <<"Root Node">>
          /\ TreeValues(trItems[rootNodeId + 1].child)
                = <<"Child Node 1", "Child Node 2",
                    "Child Node 3 with children">>
          /\ TreeValues(trItems[childNode2Id + 1].child)
                = <<"Grandchild 3.1", "Grandchild 3.2">>
          /\ \A i \in 1..Len(trItems) :
                i - 1 \notin {0, rootNodeId, childNode2Id}
                    => trItems[i].child = <<>>
    /\ trPc = "constructed" =>
          {i \in 1..(Len(trItems) - 1) : trItems[i + 1].isopen}
              = {rootNodeId, childNode2Id}

\* The constructor has finished and childNode2Id is the third child.
C11_Witness ==
    /\ trPc = "constructed"
    /\ rootNodeId = 1
    /\ childNode2Id = 4
    /\ trItems[5].isopen

(***************************************************************************)
(* C12: in the guide's "Simple GUI Button" example, after construction and *)
(* after any sequence of n clicks on clickMe, count equals n and the text  *)
(* of the info label equals "Clicks: " followed by count (it shows         *)
(* "Clicks: 0" before the first click); no click is lost and the label is  *)
(* never left showing an older count.                                      *)
(***************************************************************************)
C12_ClicksCounted ==
    baPc \in {"constructed", "running", "ended"} =>
        /\ count = baClicks
        /\ info = "Clicks: " \o ToString(count)
        /\ baClicks = 0 => info = "Clicks: 0"

\* The user has clicked more than once, up to a count of two digits.
C12_Witness ==
    /\ baPc = "running"
    /\ baClicks = 11
    /\ info = "Clicks: 11"

(***************************************************************************)
(* C13: layout-file lookup as the guide states it: the build system        *)
(* resolves #define LAYOUTFILE <path> by prepending an include path        *)
(* declared in the .upp file, so with "include /ui;" and the layout stored *)
(* at ui/MyLayout.lay the path <MyLayout.lay> is found while               *)
(* <MyPackage/ui/MyLayout.lay> is searched as ui/MyPackage/ui/MyLayout.lay *)
(* and is not found; every LAYOUTFILE path the guide shows as one to use   *)
(* (<MyLayout.lay>, and <MyApp/ui/MyLayout.lay> of the Basic Workflow,     *)
(* whose layout is saved as ui/MyLayout.lay) obeys this rule: it is found. *)
(***************************************************************************)
GuideLayoutPaths == {<<"MyLayout.lay">>, <<"MyApp", "ui", "MyLayout.lay">>}

C13_LayoutLookup ==
    (layPc = "looked_up" /\ layFile = <<"ui", "MyLayout.lay">>
         /\ layIncludes = {<<"ui">>})
        => /\ layPath = <<"MyLayout.lay">> => layFound
           /\ layPath = <<"MyPackage", "ui", "MyLayout.lay">>
                 => /\ ~layFound
                    /\ laySearched
                          = {<<"ui", "MyPackage", "ui", "MyLayout.lay">>}
           /\ layPath \in GuideLayoutPaths => layFound

(***************************************************************************)
(* C14: fan-in before read in the parallel-sum example: the "Parallel sum  *)
(* calculation complete." log, the read of totalSum and the ASSERT happen  *)
(* only after every subrange lambda of the first CoPartition call has      *)
(* finished its atomic addition; no worker adds to totalSum after the main *)
(* thread has read it, and the second CoPartition call starts only after   *)
(* the first has returned.                                                 *)
(***************************************************************************)
FirstLambdasFinished == \A j \in DOMAIN jobPc : jobPc[j] = "done"

C14_FanInBeforeRead ==
    /\ (\E k \in DOMAIN conLog :
           conLog[k] = "Parallel sum calculation complete.")
          => FirstLambdasFinished
    /\ loggedTotal # -1 => (FirstLambdasFinished /\ totalSum = loggedTotal)
    /\ pcMain \in {"asserted", "assert_failed"} => FirstLambdasFinished
    /\ sJobPc # <<>>
          => /\ FirstLambdasFinished
             /\ pcMain \in {"copartition2", "end"}
             /\ \E k \in DOMAIN conLog :
                   conLog[k] = "Total sum: " \o ToString(totalSum)

\* The second CoPartition runs after a first one with several subranges.
C14_Witness ==
    /\ pcMain = "copartition2"
    /\ Len(ranges) >= 2
    /\ \E j \in DOMAIN sJobPc : sJobPc[j] = "run"

(***************************************************************************)
(* C15: in the string-partition part of the parallel example, for every    *)
(* partitioning and every thread interleaving each item of stringItems     *)
(* appears in exactly one "Processing subrange" log line, the items inside *)
(* one line are in their original list order separated by ", ", and        *)
(* exactly one line is logged per subrange; only the relative order of the *)
(* lines may vary.                                                         *)
(***************************************************************************)
\* The items lo..hi of stringItems, in list order, with ", " between them.
RECURSIVE JoinItems(_, _)
JoinItems(lo, hi) ==
    IF lo = hi THEN stringItems[lo]
    ELSE stringItems[lo] \o ", " \o JoinItems(lo + 1, hi)

\* The lines the main thread writes.
MainLogLines ==
    {"Calculating sum of numbers from 1 to 100 in parallel...",
     "Parallel sum calculation complete.",
     "Total sum: " \o ToString(loggedTotal),
     "Expected sum (calculated sequentially): " \o ToString(expectedSum),
     "\nIllustrating CoPartition by logging elements in subranges:"}

NotMainLine(l) == l \notin MainLogLines

\* The lines the lambdas have written, in the order of the log.
SubrangeLines == SelectSeq(conLog, NotMainLine)

C15_EachItemLoggedOnce ==
    pcMain \in {"copartition2", "end"} =>
        /\ \A i \in DOMAIN stringItems :
              Cardinality({j \in DOMAIN sRanges :
                              sRanges[j].lo <= i /\ i <= sRanges[j].hi}) = 1
        /\ \A j \in DOMAIN sRanges :
              Cardinality({k \in DOMAIN SubrangeLines :
                              SubrangeLines[k]
                                  = "Processing subrange: [ "
                                      \o JoinItems(sRanges[j].lo,
                                                   sRanges[j].hi)
                                      \o " ]"})
                 = IF sJobPc[j] = "done" THEN 1 ELSE 0
        /\ Len(SubrangeLines)
              = Cardinality({j \in DOMAIN sJobPc : sJobPc[j] = "done"})
        /\ pcMain = "end" => Len(SubrangeLines) = Len(sRanges)

\* The program has ended; a subrange of several items was logged, and the
\* line of the first subrange is not the first of the lines.
C15_Witness ==
    /\ pcMain = "end"
    /\ Len(sRanges) >= 2
    /\ \E j \in DOMAIN sRanges : sRanges[j].hi > sRanges[j].lo
    /\ SubrangeLines[1]
          # "Processing subrange: [ "
               \o JoinItems(sRanges[1].lo, sRanges[1].hi) \o " ]"

(***************************************************************************)
(* C16: the parallel example always terminates: under fair scheduling of   *)
(* the worker threads every subrange lambda finishes, both CoPartition     *)
(* calls return, and the main routine reaches its end.                     *)
(***************************************************************************)
C16_Terminates ==
    <>(/\ pcMain = "end"
       /\ \A j \in DOMAIN jobPc : jobPc[j] = "done"
       /\ \A j \in DOMAIN sJobPc : sJobPc[j] = "done")

\* The end is reached when every item had a subrange of its own.
C16_Witness ==
    /\ pcMain = "end"
    /\ Len(ranges) = NumCount
    /\ Len(sRanges) = StrCount

(***************************************************************************)
(* C17: in the dialog-template example the OK handler reports the values   *)
(* held by the controls at the moment of the click and does so before      *)
(* accepting: the text handed to PromptOK is "Name: <nameEdit content>"    *)
(* and, on the next line, "Feature Enabled: Yes" exactly when checkOption  *)
(* is checked ("No" otherwise); it is shown before Accept() is called, and *)
(* with the values the constructor set it reports "Default Name" and       *)
(* "Yes".                                                                  *)
(***************************************************************************)
C17_PromptReportsControls ==
    /\ Len(dlgPrompts) = okHandled + (IF dlgPc = "prompt" THEN 1 ELSE 0)
    /\ dlgPc = "prompt" =>
          /\ checkOption
                => dlgPrompts[Len(dlgPrompts)]
                      = "Name: " \o nameEdit \o "\nFeature Enabled: Yes"
          /\ ~checkOption
                => dlgPrompts[Len(dlgPrompts)]
                      = "Name: " \o nameEdit \o "\nFeature Enabled: No"
          /\ (nameEdit = "Default Name" /\ checkOption)
                => dlgPrompts[Len(dlgPrompts)]
                      = "Name: Default Name\nFeature Enabled: Yes"

\* The prompt of a second OK click, after the user has typed a name and
\* cleared the option.
C17_Witness ==
    /\ dlgPc = "prompt"
    /\ okHandled = 1
    /\ nameEdit = "Ann"
    /\ ~checkOption
    /\ dlgPrompts[1] = "Name: Default Name\nFeature Enabled: Yes"

(***************************************************************************)
(* C18: MyColorValueConvert::Format turns a Value holding a MyColorValue   *)
(* into the string "<name> (<color string>)", which is the same string     *)
(* MyColorValue::ToString returns for that value, and returns every Value  *)
(* that does not hold a MyColorValue unchanged; Filter returns every input *)
(* unchanged.                                                              *)
(***************************************************************************)
C18_FormatText ==
    /\ pcFmt # "crashed"
    /\ pcFmt \in {"formatted", "filtered", "scanned"} =>
          /\ IsMyColorValue(fmtIn) =>
                /\ fmtOut = StringValue(fmtIn.name \o <<" ", "(">>
                                            \o ColorText(fmtIn.colorVal)
                                            \o <<")">>)
                /\ fmtOut.text = toStr
          /\ ~IsMyColorValue(fmtIn) => fmtOut = fmtIn
    /\ pcFmt \in {"filtered", "scanned"} => filterOut = fmtIn

(***************************************************************************)
(* C19: Format and Scan of MyColorValueConvert are inverse to each other:  *)
(* for every MyColorValue v (any name, including names that contain '('    *)
(* or ')', and any color), Scan(Format(v)) returns a MyColorValue with the *)
(* same name and the same color as v.  Stated for the runs in which Format *)
(* returned the text its format string describes.                          *)
(***************************************************************************)
C19_ScanInvertsFormat ==
    (/\ pcFmt = "scanned"
     /\ IsMyColorValue(fmtIn)
     /\ fmtOut = StringValue(SprintfText(fmtIn.name,
                                         ColorText(fmtIn.colorVal))))
        => /\ IsMyColorValue(fmtScan)
           /\ fmtScan.name = fmtIn.name
           /\ fmtScan.colorVal = fmtIn.colorVal

(***************************************************************************)
(* C20: the result of MyColorValueConvert::Scan on a string that contains  *)
(* ')' depends only on the text up to the first ')': appending or changing *)
(* any characters after the first ')' never changes whether Scan succeeds  *)
(* nor the name and color it returns, and a string with an empty name part *)
(* such as "(#FF0000)" is accepted with name "".  The formula compares the *)
(* result for each string with the result for its text up to the first ')' *)
(* alone: two strings that agree up to there then have equal results.      *)
(***************************************************************************)
\* The text of s up to its first ')', the ')' included.
UpToFirstClosing(s) ==
    SubSeq(s, 1, CHOOSE i \in 1..Len(s) : FirstAt(s, ")", i))

C20_ScanIgnoresTail ==
    (pcScan = "scanned" /\ IsString(scanIn)) =>
        /\ Has(scanIn.text, ")")
              => scanOut = Scan(StringValue(UpToFirstClosing(scanIn.text)))
        /\ (/\ Len(scanIn.text) >= 3 + HexLen
            /\ SubSeq(scanIn.text, 1, 2) = <<"(", "#">>
            /\ \A i \in 3..(2 + HexLen) : scanIn.text[i] \in HexDigits
            /\ scanIn.text[3 + HexLen] = ")")
              => /\ IsMyColorValue(scanOut)
                 /\ scanOut.name = <<>>
                 /\ scanOut.colorVal
                       = HexValue(SubSeq(scanIn.text, 3, 2 + HexLen))

\* A string with an empty name part and more text after its first ')', one
\* more ')' included, was scanned and accepted.
C20_Witness ==
    /\ pcScan = "scanned"
    /\ IsString(scanIn)
    /\ Len(scanIn.text) = MaxLen
    /\ MaxLen > 3 + HexLen
    /\ SubSeq(scanIn.text, 1, 2) = <<"(", "#">>
    /\ scanIn.text[3 + HexLen] = ")"
    /\ scanIn.text[MaxLen] = ")"
    /\ IsMyColorValue(scanOut)
    /\ scanOut.name = <<>>

\* C21: in the display/convert test window, when the callback of the convert
\* button has run, the text of the edit field is the text it scanned; if
\* Scan of that text yields a MyColorValue, myCtrl's data is exactly that
\* value and resultLabel reads "Conversion successful!"; otherwise myCtrl's
\* data is what it was before the click and resultLabel shows the
\* "Conversion failed..." text.  (The edit field is not written by the
\* callback, so the text in the state after the callback is the text that
\* was scanned.)
C21_ConvertOnlyOnSuccess ==
    (dtPc = "handled" /\ convertAction = "handler") =>
        LET scannedVal == Scan(StringValue(editField)) IN
        IF IsMyColorValue(scannedVal)
        THEN /\ myCtrlData = MyColorValue(scannedVal.colorVal,
                                          scannedVal.name)
             /\ resultLabel = "Conversion successful!"
        ELSE /\ myCtrlData = dtDataAtClick
             /\ resultLabel =
                  "Conversion failed. Try 'Name (ColorSpec)' e.g. 'Lime (#00FF00)'"

=============================================================================
